---- MODULE Spec2Model ----
(***************************************************************************)
(* Cyber Cycles server: the rubber-banding engine (physics/rubber.rs), the *)
(* collision detector (physics/collision.rs), the configuration bundles    *)
(* (physics/config.rs) and the session reducers (lib.rs).                  *)
(*                                                                         *)
(* Numbers.  The rubber engine's f32 values are fixed-point thousandths    *)
(* (RSCALE); a product is rounded down to a thousandth.  Times (dt,        *)
(* durations, malus_timer) are thousandths of a second, and dt is a whole  *)
(* number of half seconds so that powf is computable: decay_rate^(k/2) is  *)
(* the k-th power of the square root of decay_rate.  Geometry lives on a   *)
(* dyadic grid of 1/GSCALE, on which every f32 sum and product of the      *)
(* intersection kernel is exact.  validate_rubber_usage is modelled on     *)
(* true f32 values (multiples of 2^-30, rounded to 24 significant bits),   *)
(* because its verdict at the tolerance boundary is decided by rounding;   *)
(* so is the malus timer where its expiry is followed call by call.        *)
(***************************************************************************)
EXTENDS Integers, Sequences, FiniteSets, TLC

VARIABLES
    state,      \* the RubberState under the rubber engine's operations
    last,       \* the name of the last rubber-engine call
    steps,      \* how many rubber-engine calls were made
    custom,     \* whether update_rubber was given a range outside RUBBER_CONFIG's
    client_rubber, server_rubber, tolerance,    \* validate_rubber_usage's arguments
    verdict,    \* its result, of kind "none" before the call
    player,     \* the PlayerState handed to the collision checks
    segments,   \* the trail segments handed to the collision checks
    call,       \* the last collision check: its name, arguments and CollisionResult
    s1, s2,     \* segments_intersect's arguments
    hit,        \* its result: None before the call, Some(bool) after
    pre,        \* the RubberState handed to one call of the rubber engine
    post,       \* the RubberState after that call
    invocation, \* that call: its name, arguments and return value
    arena,      \* the arguments of the arena checks
    arena_verdict,  \* their results, None before the call
    full_config,    \* the FullPhysicsConfig under validation
    injected,   \* the checks of validate() that full_config was made to violate
    config_verdict, \* the validate() call made on it and its result
    probe,      \* the point and segment handed to distance_to_segment_squared
    measured,   \* its result: None before the call, Some(fraction) after
    player_table,   \* the player table of the session module, by primary key id
    game_state,     \* the row with id 1 of the game_state table
    global_config,  \* the row with version 1 of the global_config table
    disconnects,    \* the number of clients that have left their row
    penalty,    \* the malus fields of a RubberState whose timer is held in f32
    bonus       \* the last calculate_position_bonus call and its outcome

rubberVars == <<state, last, steps, custom>>
usageVars == <<client_rubber, server_rubber, tolerance, verdict>>
collisionVars == <<player, segments, call>>
intersectVars == <<s1, s2, hit>>
stepVars == <<pre, post, invocation>>
arenaVars == <<arena, arena_verdict>>
configVars == <<full_config, injected, config_verdict>>
distVars == <<probe, measured>>
sessionVars == <<player_table, game_state, global_config, disconnects>>
lateVars == <<distVars, sessionVars, penalty, bonus>>
moreVars == <<stepVars, arenaVars, configVars, lateVars>>
vars == <<rubberVars, usageVars, collisionVars, intersectVars, moreVars>>

----------------------------------------------------------------------------
(* Fixed-point helpers                                                     *)

RSCALE == 1000

Min(a, b) == IF a < b THEN a ELSE b
Max(a, b) == IF a > b THEN a ELSE b
Abs(a) == IF a < 0 THEN -a ELSE a

\* f32::clamp(self, min, max)
Clamp(x, lo, hi) == Max(lo, Min(x, hi))

\* a * b on thousandths
Mul(a, b) == (a * b) \div RSCALE

\* the largest r in lo..hi with r * r <= n, by bisection
RECURSIVE ISqrtIn(_, _, _)
ISqrtIn(n, lo, hi) ==
    IF lo >= hi THEN lo
    ELSE LET mid == (lo + hi + 1) \div 2
         IN  IF mid * mid <= n THEN ISqrtIn(n, mid, hi) ELSE ISqrtIn(n, lo, mid - 1)

\* f32::sqrt on thousandths, for arguments up to 4.0
SqrtFx(x) == ISqrtIn(x * RSCALE, 0, 2 * RSCALE)

RECURSIVE PowFx(_, _)
PowFx(b, k) == IF k = 0 THEN RSCALE ELSE Mul(PowFx(b, k - 1), b)

HALF == RSCALE \div 2

\* f32::powf(rate, dt) for dt a whole number of half seconds
Powf(rate, dt) == PowFx(SqrtFx(rate), dt \div HALF)

----------------------------------------------------------------------------
(* RubberConfig (config.rs) and the RUBBER_CONFIG constant (rubber.rs)     *)

RUBBER_CONFIG ==
    [ base_rubber |-> 1000, server_rubber |-> 3000, rubber_speed |-> 40000,
      min_distance |-> 1, malus_duration |-> 500, malus_factor |-> 300,
      decay_rate |-> 950, max_rubber |-> 5000, min_rubber |-> 100,
      effectiveness_threshold |-> 500 ]

\* a RubberConfig::validate that also holds max_rubber to RUBBER_CONFIG's
RubberConfig_validate_max_capped(c) ==
    IF c.base_rubber <= 0 THEN "base_rubber must be positive"
    ELSE IF c.server_rubber <= 0 THEN "server_rubber must be positive"
    ELSE IF c.rubber_speed <= 0 THEN "rubber_speed must be positive"
    ELSE IF c.min_distance <= 0 THEN "min_distance must be positive"
    ELSE IF c.malus_duration <= 0 THEN "malus_duration must be positive"
    ELSE IF c.malus_factor < 0 \/ c.malus_factor > RSCALE
        THEN "malus_factor must be between 0.0 and 1.0"
    ELSE IF c.decay_rate <= 0 \/ c.decay_rate > RSCALE
        THEN "decay_rate must be between 0.0 and 1.0"
    ELSE IF c.max_rubber <= c.base_rubber \/ c.max_rubber > RUBBER_CONFIG.max_rubber
        THEN "max_rubber must be greater than base_rubber"
    ELSE IF c.min_rubber <= 0 \/ c.min_rubber >= c.base_rubber
        THEN "min_rubber must be positive and less than base_rubber"
    ELSE IF c.effectiveness_threshold < 0 \/ c.effectiveness_threshold > RSCALE
        THEN "effectiveness_threshold must be between 0.0 and 1.0"
    ELSE "Ok"

\* RubberConfig::validate: "Ok" or the reason of the first violated check
RubberConfig_validate(c) ==
    IF c.base_rubber <= 0 THEN "base_rubber must be positive"
    ELSE IF c.server_rubber <= 0 THEN "server_rubber must be positive"
    ELSE IF c.rubber_speed <= 0 THEN "rubber_speed must be positive"
    ELSE IF c.min_distance <= 0 THEN "min_distance must be positive"
    ELSE IF c.malus_duration <= 0 THEN "malus_duration must be positive"
    ELSE IF c.malus_factor < 0 \/ c.malus_factor > RSCALE
        THEN "malus_factor must be between 0.0 and 1.0"
    ELSE IF c.decay_rate <= 0 \/ c.decay_rate > RSCALE
        THEN "decay_rate must be between 0.0 and 1.0"
    ELSE IF c.max_rubber <= c.base_rubber
        THEN "max_rubber must be greater than base_rubber"
    ELSE IF c.min_rubber <= 0 \/ c.min_rubber >= c.base_rubber
        THEN "min_rubber must be positive and less than base_rubber"
    ELSE IF c.effectiveness_threshold < 0 \/ c.effectiveness_threshold > RSCALE
        THEN "effectiveness_threshold must be between 0.0 and 1.0"
    ELSE "Ok"

\* RubberConfig::default
RubberConfig_default ==
    [ base_rubber |-> 1000, server_rubber |-> 3000, rubber_speed |-> 40000,
      min_distance |-> 1, malus_duration |-> 500, malus_factor |-> 300,
      decay_rate |-> 950, max_rubber |-> 5000, min_rubber |-> 100,
      effectiveness_threshold |-> 500 ]

----------------------------------------------------------------------------
(* PhysicsConfig, CollisionConfig and FullPhysicsConfig (config.rs), in    *)
(* thousandths like RubberConfig                                           *)

\* PhysicsConfig::default
PhysicsConfig_default ==
    [ base_speed |-> 40000, boost_speed |-> 70000, brake_speed |-> 20000,
      turn_speed |-> 3000, turn_delay |-> 80, turn_penalty |-> 50,
      acceleration |-> 100000, deceleration |-> 80000,
      min_speed |-> 5000, max_speed |-> 80000 ]

\* PhysicsConfig::validate: "Ok" or the reason of the first violated check
PhysicsConfig_validate(c) ==
    IF c.base_speed <= 0 THEN "base_speed must be positive"
    ELSE IF c.boost_speed <= c.base_speed
        THEN "boost_speed must be greater than base_speed"
    ELSE IF c.brake_speed >= c.base_speed
        THEN "brake_speed must be less than base_speed"
    ELSE IF c.turn_speed <= 0 THEN "turn_speed must be positive"
    ELSE IF c.turn_delay < 0 THEN "turn_delay cannot be negative"
    ELSE IF c.turn_penalty < 0 \/ c.turn_penalty > RSCALE
        THEN "turn_penalty must be between 0.0 and 1.0"
    ELSE IF c.acceleration <= 0 THEN "acceleration must be positive"
    ELSE IF c.deceleration <= 0 THEN "deceleration must be positive"
    ELSE IF c.min_speed < 0 THEN "min_speed cannot be negative"
    ELSE IF c.max_speed <= c.min_speed
        THEN "max_speed must be greater than min_speed"
    ELSE "Ok"

\* CollisionConfig::default
CollisionConfig_default ==
    [ death_radius |-> 2000, bike_collision_dist |-> 3000,
      trail_collision_dist |-> 2500, wall_collision_dist |-> 1000,
      slipstream_distance |-> 5000, slipstream_angle |-> 300 ]

\* std::f32::consts::PI / 2.0 = 1.5707964, rounded down to a thousandth: a
\* whole number of thousandths exceeds PI / 2 exactly when it exceeds this
PI_HALF == 1570

\* CollisionConfig::validate: "Ok" or the reason of the first violated check
CollisionConfig_validate(c) ==
    IF c.death_radius <= 0 THEN "death_radius must be positive"
    ELSE IF c.bike_collision_dist <= 0 THEN "bike_collision_dist must be positive"
    ELSE IF c.trail_collision_dist <= 0 THEN "trail_collision_dist must be positive"
    ELSE IF c.wall_collision_dist <= 0 THEN "wall_collision_dist must be positive"
    ELSE IF c.slipstream_distance <= 0 THEN "slipstream_distance must be positive"
    ELSE IF c.slipstream_angle <= 0 \/ c.slipstream_angle > PI_HALF
        THEN "slipstream_angle must be between 0 and PI/2"
    ELSE "Ok"

\* FullPhysicsConfig::default
FullPhysicsConfig_default ==
    [ physics |-> PhysicsConfig_default, collision |-> CollisionConfig_default,
      rubber |-> RubberConfig_default ]

\* FullPhysicsConfig::competitive
FullPhysicsConfig_competitive ==
    [ physics |->
        [ base_speed |-> 40000, boost_speed |-> 70000, brake_speed |-> 20000,
          turn_speed |-> 3000, turn_delay |-> 80, turn_penalty |-> 50,
          acceleration |-> 100000, deceleration |-> 80000,
          min_speed |-> 5000, max_speed |-> 80000 ],
      collision |->
        [ death_radius |-> 2000, bike_collision_dist |-> 3000,
          trail_collision_dist |-> 2500, wall_collision_dist |-> 1000,
          slipstream_distance |-> 5000, slipstream_angle |-> 300 ],
      rubber |->
        [ base_rubber |-> 1000, server_rubber |-> 3000, rubber_speed |-> 40000,
          min_distance |-> 1, malus_duration |-> 500, malus_factor |-> 300,
          decay_rate |-> 950, max_rubber |-> 5000, min_rubber |-> 100,
          effectiveness_threshold |-> 500 ] ]

\* FullPhysicsConfig::casual
FullPhysicsConfig_casual ==
    [ physics |->
        [ base_speed |-> 35000, boost_speed |-> 60000, brake_speed |-> 15000,
          turn_speed |-> 3500, turn_delay |-> 100, turn_penalty |-> 20,
          acceleration |-> 80000, deceleration |-> 60000,
          min_speed |-> 5000, max_speed |-> 70000 ],
      collision |->
        [ death_radius |-> 2500, bike_collision_dist |-> 4000,
          trail_collision_dist |-> 3000, wall_collision_dist |-> 1500,
          slipstream_distance |-> 6000, slipstream_angle |-> 400 ],
      rubber |->
        [ base_rubber |-> 1000, server_rubber |-> 4000, rubber_speed |-> 50000,
          min_distance |-> 1, malus_duration |-> 300, malus_factor |-> 200,
          decay_rate |-> 900, max_rubber |-> 6000, min_rubber |-> 100,
          effectiveness_threshold |-> 400 ] ]

\* a FullPhysicsConfig::validate that looks at the rubber bundle before the
\* collision bundle
FullPhysicsConfig_validate_rubber_first(c) ==
    LET p == PhysicsConfig_validate(c.physics)
        r == RubberConfig_validate(c.rubber)
    IN  IF p # "Ok" THEN p
        ELSE IF r # "Ok" THEN r
        ELSE CollisionConfig_validate(c.collision)

\* FullPhysicsConfig::validate: each `?` returns the bundle's error at once
FullPhysicsConfig_validate(c) ==
    LET p == PhysicsConfig_validate(c.physics)
        k == CollisionConfig_validate(c.collision)
    IN  IF p # "Ok" THEN p
        ELSE IF k # "Ok" THEN k
        ELSE RubberConfig_validate(c.rubber)

----------------------------------------------------------------------------
(* RubberState and the engine's operations (rubber.rs)                     *)

\* RubberState::new
RubberState_new(player_id) ==
    [ player_id |-> player_id, rubber |-> RUBBER_CONFIG.base_rubber,
      malus |-> 0, malus_timer |-> 0 ]

\* RubberState::with_rubber
RubberState_with_rubber(player_id, rubber) ==
    [ player_id |-> player_id,
      rubber |-> Clamp(rubber, RUBBER_CONFIG.min_rubber, RUBBER_CONFIG.max_rubber),
      malus |-> 0, malus_timer |-> 0 ]

\* a malus timer that expires without clearing the malus
update_malus_keeps_malus(st, dt) ==
    IF st.malus_timer > 0
    THEN [st EXCEPT !.malus_timer = Max(st.malus_timer - dt, 0)]
    ELSE st

\* the malus timer of update_rubber
update_malus(st, dt) ==
    IF st.malus_timer > 0
    THEN LET t == st.malus_timer - dt
         IN  IF t <= 0 THEN [st EXCEPT !.malus_timer = 0, !.malus = 0]
             ELSE [st EXCEPT !.malus_timer = t]
    ELSE st

\* an update_rubber that clamps only from above
update_rubber_no_floor(st, dt, cfg) ==
    LET decay_factor == Powf(cfg.decay_rate, dt)
        decayed == Mul(st.rubber, decay_factor)
    IN  update_malus([st EXCEPT !.rubber = Min(decayed, cfg.max_rubber)], dt)

\* update_rubber(state, dt, Some(cfg)); None is cfg = RUBBER_CONFIG
update_rubber(st, dt, cfg) ==
    LET decay_factor == Powf(cfg.decay_rate, dt)
        decayed == Mul(st.rubber, decay_factor)
        clamped == Clamp(decayed, cfg.min_rubber, cfg.max_rubber)
    IN  update_malus([st EXCEPT !.rubber = clamped], dt)

\* a malus that is not given the configured minimum duration
apply_malus_no_floor(st, duration, factor) ==
    LET clamped_factor == Clamp(factor, 0, RSCALE)
    IN  [st EXCEPT
            !.malus = Mul(Mul(st.rubber, clamped_factor), RUBBER_CONFIG.malus_factor),
            !.malus_timer = duration]

\* a malus that takes the factor as given
apply_malus_unclamped(st, duration, factor) ==
    [st EXCEPT
        !.malus = Mul(Mul(st.rubber, factor), RUBBER_CONFIG.malus_factor),
        !.malus_timer = Max(duration, RUBBER_CONFIG.malus_duration)]

\* apply_malus(state, duration, factor)
apply_malus(st, duration, factor) ==
    LET clamped_factor == Clamp(factor, 0, RSCALE)
    IN  [st EXCEPT
            !.malus = Mul(Mul(st.rubber, clamped_factor), RUBBER_CONFIG.malus_factor),
            !.malus_timer = Max(duration, RUBBER_CONFIG.malus_duration)]

\* a reset_rubber that leaves the malus timer running
reset_rubber_keeps_timer(st) ==
    [st EXCEPT !.rubber = RUBBER_CONFIG.base_rubber, !.malus = 0]

\* reset_rubber(state)
reset_rubber(st) ==
    [st EXCEPT !.rubber = RUBBER_CONFIG.base_rubber, !.malus = 0, !.malus_timer = 0]

\* an increase that normalises the position by position / total_players
increase_rubber_for_position_from_one(st, position, total_players) ==
    IF total_players = 0 \/ position = 0 THEN st
    ELSE LET position_factor ==
                 IF position >= total_players THEN RSCALE
                 ELSE (position * RSCALE) \div total_players
             increase == Mul(position_factor, RSCALE \div 10)
         IN  [st EXCEPT !.rubber =
                 Clamp(st.rubber + increase,
                       RUBBER_CONFIG.min_rubber, RUBBER_CONFIG.max_rubber)]

\* increase_rubber_for_position(state, position, total_players)
increase_rubber_for_position(st, position, total_players) ==
    IF total_players = 0 \/ position = 0 THEN st
    ELSE LET position_factor ==
                 IF position >= total_players THEN RSCALE
                 ELSE ((position - 1) * RSCALE) \div (total_players - 1)
             increase == Mul(position_factor, RSCALE \div 10)
         IN  [st EXCEPT !.rubber =
                 Clamp(st.rubber + increase,
                       RUBBER_CONFIG.min_rubber, RUBBER_CONFIG.max_rubber)]

\* a / b on thousandths
Div(a, b) == (a * RSCALE) \div b

\* a calculate_effectiveness without the final clamp
calculate_effectiveness_unclamped(st) ==
    LET cfg == RUBBER_CONFIG
        rubber_effectiveness ==
            Div(st.rubber - cfg.min_rubber, cfg.max_rubber - cfg.min_rubber)
        malus_reduction ==
            IF st.malus_timer > 0
            THEN Div(st.malus, Max(st.rubber, cfg.min_rubber))
            ELSE 0
    IN  rubber_effectiveness - malus_reduction

\* calculate_effectiveness(state)
calculate_effectiveness(st) ==
    LET cfg == RUBBER_CONFIG
        rubber_effectiveness ==
            Div(st.rubber - cfg.min_rubber, cfg.max_rubber - cfg.min_rubber)
        malus_reduction ==
            IF st.malus_timer > 0
            THEN Div(st.malus, Max(st.rubber, cfg.min_rubber))
            ELSE 0
    IN  Clamp(rubber_effectiveness - malus_reduction, 0, RSCALE)

\* a calculate_speed_modifier without the 50% floor
calculate_speed_modifier_no_floor(st, base_speed) ==
    LET cfg == RUBBER_CONFIG
        rubber_boost ==
            Mul(Mul(st.rubber - cfg.base_rubber, cfg.rubber_speed), RSCALE \div 100)
        malus_penalty == st.malus
        modifier == RSCALE + rubber_boost - malus_penalty
    IN  Mul(base_speed, modifier)

\* calculate_speed_modifier(state, base_speed)
calculate_speed_modifier(st, base_speed) ==
    LET cfg == RUBBER_CONFIG
        rubber_boost ==
            Mul(Mul(st.rubber - cfg.base_rubber, cfg.rubber_speed), RSCALE \div 100)
        malus_penalty == st.malus
        modifier == RSCALE + rubber_boost - malus_penalty
    IN  Mul(base_speed, Max(modifier, RSCALE \div 2))

----------------------------------------------------------------------------
(* Geometry (collision.rs).  A coordinate is a whole number of 1/GSCALE;   *)
(* a cross product is a whole number of 1/GSCALE^2.  EPS is EPS_NUM /      *)
(* EPS_DEN.  A squared distance is an exact fraction [n, d] in lowest      *)
(* terms, in units of 1/GSCALE^2; a distance is held as its square, sqrt   *)
(* being monotone, and f32::MAX as the fraction 1/0.                       *)

GSCALE == 64
EPS_NUM == 1
EPS_DEN == 100

RECURSIVE Gcd(_, _)
Gcd(a, b) == IF b = 0 THEN a ELSE Gcd(b, a % b)

\* the fraction n / d (d > 0) in lowest terms
Frac(n, d) == LET g == Gcd(Abs(n), d) IN [n |-> n \div g, d |-> d \div g]
FracLess(a, b) == a.n * b.d < b.n * a.d

F32_MAX == [n |-> 1, d |-> 0]
None == <<>>
Some(v) == <<v>>

\* x > EPS, x < -EPS and |x| < EPS for a cross product x
GtEps(x) == x * EPS_DEN > EPS_NUM * GSCALE * GSCALE
LtNegEps(x) == x * EPS_DEN < -(EPS_NUM * GSCALE * GSCALE)
AbsLtEps(x) == Abs(x) * EPS_DEN < EPS_NUM * GSCALE * GSCALE

\* Segment::new
Segment(start_x, start_z, end_x, end_z) ==
    [start_x |-> start_x, start_z |-> start_z, end_x |-> end_x, end_z |-> end_z]
\* Segment::start, Segment::end
SegStart(s) == <<s.start_x, s.start_z>>
SegEnd(s) == <<s.end_x, s.end_z>>

\* distance_to_segment_squared with t left unclamped: the distance to the
\* line through the segment
distance_to_line_squared(px, pz, sx, sz, ex, ez) ==
    LET dx == ex - sx
        dz == ez - sz
        segment_len_sq == dx * dx + dz * dz
    IN  IF segment_len_sq * EPS_DEN * EPS_DEN < EPS_NUM * EPS_NUM * GSCALE * GSCALE
        THEN Frac((px - sx) * (px - sx) + (pz - sz) * (pz - sz), 1)
        ELSE LET cross == (px - sx) * dz - (pz - sz) * dx
             IN  Frac(cross * cross, segment_len_sq)

\* distance_to_segment_squared(px, pz, sx, sz, ex, ez)
distance_to_segment_squared(px, pz, sx, sz, ex, ez) ==
    LET dx == ex - sx
        dz == ez - sz
        segment_len_sq == dx * dx + dz * dz
    IN  IF segment_len_sq * EPS_DEN * EPS_DEN < EPS_NUM * EPS_NUM * GSCALE * GSCALE
        THEN Frac((px - sx) * (px - sx) + (pz - sz) * (pz - sz), 1)
        ELSE LET raw == (px - sx) * dx + (pz - sz) * dz
                 \* t = raw / segment_len_sq, clamped to [0, 1]
                 t == Frac(Max(0, Min(raw, segment_len_sq)), segment_len_sq)
                 \* p - closest, as numerators over t.d
                 pdx == (px - sx) * t.d - t.n * dx
                 pdz == (pz - sz) * t.d - t.n * dz
             IN  Frac(pdx * pdx + pdz * pdz, t.d * t.d)

\* CollisionResult::default
CollisionResult_default ==
    [collided |-> FALSE, collision_type |-> None, distance |-> F32_MAX,
     segment_index |-> None]

\* the loop of check_trail_collision from segment i (1-based) on
RECURSIVE trail_scan(_, _, _, _, _)
trail_scan(pl, segs, death_radius_sq, i, result) ==
    IF i > Len(segs) THEN result
    ELSE LET segment == segs[i]
             dist_sq == distance_to_segment_squared(pl.x, pl.z,
                            segment.start_x, segment.start_z,
                            segment.end_x, segment.end_z)
         IN  IF FracLess(dist_sq, Frac(death_radius_sq, 1))
             THEN [result EXCEPT !.collided = TRUE, !.distance = dist_sq,
                                 !.segment_index = Some(i - 1)]
             ELSE trail_scan(pl, segs, death_radius_sq, i + 1,
                      IF FracLess(dist_sq, result.distance)
                      THEN [result EXCEPT !.distance = dist_sq,
                                          !.segment_index = Some(i - 1)]
                      ELSE result)

\* a check_trail_collision that goes on to the closest hit
RECURSIVE closest_scan(_, _, _, _, _)
closest_scan(pl, segs, death_radius_sq, i, result) ==
    IF i > Len(segs) THEN result
    ELSE LET segment == segs[i]
             dist_sq == distance_to_segment_squared(pl.x, pl.z,
                            segment.start_x, segment.start_z,
                            segment.end_x, segment.end_z)
             hits == FracLess(dist_sq, Frac(death_radius_sq, 1))
         IN  closest_scan(pl, segs, death_radius_sq, i + 1,
                 IF FracLess(dist_sq, result.distance)
                 THEN [result EXCEPT !.collided = result.collided \/ hits,
                                     !.distance = dist_sq,
                                     !.segment_index = Some(i - 1)]
                 ELSE result)
check_trail_collision_closest(pl, segs, death_radius) ==
    IF ~pl.alive THEN CollisionResult_default
    ELSE closest_scan(pl, segs, death_radius * death_radius, 1, CollisionResult_default)

\* a check_trail_collision that lets a later segment at the same distance
\* replace the closest one
RECURSIVE last_closest_scan(_, _, _, _, _)
last_closest_scan(pl, segs, death_radius_sq, i, result) ==
    IF i > Len(segs) THEN result
    ELSE LET segment == segs[i]
             dist_sq == distance_to_segment_squared(pl.x, pl.z,
                            segment.start_x, segment.start_z,
                            segment.end_x, segment.end_z)
         IN  IF FracLess(dist_sq, Frac(death_radius_sq, 1))
             THEN [result EXCEPT !.collided = TRUE, !.distance = dist_sq,
                                 !.segment_index = Some(i - 1)]
             ELSE last_closest_scan(pl, segs, death_radius_sq, i + 1,
                      IF ~FracLess(result.distance, dist_sq)
                      THEN [result EXCEPT !.distance = dist_sq,
                                          !.segment_index = Some(i - 1)]
                      ELSE result)
check_trail_collision_last_closest(pl, segs, death_radius) ==
    IF ~pl.alive THEN CollisionResult_default
    ELSE last_closest_scan(pl, segs, death_radius * death_radius, 1,
                           CollisionResult_default)

\* a check_trail_collision without the alive check
check_trail_collision_any(pl, segs, death_radius) ==
    trail_scan(pl, segs, death_radius * death_radius, 1, CollisionResult_default)

\* check_trail_collision(player, segments, death_radius)
check_trail_collision(pl, segs, death_radius) ==
    IF ~pl.alive THEN CollisionResult_default
    ELSE trail_scan(pl, segs, death_radius * death_radius, 1, CollisionResult_default)

\* a check_trail_collision_with_owner that tags only the player's own trail
check_trail_collision_with_owner_self_only(pl, trail_owner_id, segs, death_radius) ==
    LET result == check_trail_collision(pl, segs, death_radius)
    IN  IF result.collided /\ pl.id = trail_owner_id
        THEN [result EXCEPT !.collision_type = Some(<<"SelfTrail">>)]
        ELSE result

\* check_trail_collision_with_owner(player, trail_owner_id, segments, death_radius)
check_trail_collision_with_owner(pl, trail_owner_id, segs, death_radius) ==
    LET result == check_trail_collision(pl, segs, death_radius)
    IN  IF result.collided
        THEN IF pl.id = trail_owner_id
             THEN [result EXCEPT !.collision_type = Some(<<"SelfTrail">>)]
             ELSE [result EXCEPT !.collision_type =
                                     Some(<<"OtherTrail", trail_owner_id>>)]
        ELSE result

\* direction(s, p): the cross product (p - s.start) x (s.end - s.start)
direction(s, p) ==
    LET dx1 == p[1] - s.start_x
        dz1 == p[2] - s.start_z
        dx2 == s.end_x - s.start_x
        dz2 == s.end_z - s.start_z
    IN  dx1 * dz2 - dz1 * dx2

\* on_segment(s, p): p is inside the bounding box of s widened by EPS
on_segment(s, p) ==
    LET min_x == Min(s.start_x, s.end_x)
        max_x == Max(s.start_x, s.end_x)
        min_z == Min(s.start_z, s.end_z)
        max_z == Max(s.start_z, s.end_z)
    IN  /\ p[1] * EPS_DEN >= min_x * EPS_DEN - EPS_NUM * GSCALE
        /\ p[1] * EPS_DEN <= max_x * EPS_DEN + EPS_NUM * GSCALE
        /\ p[2] * EPS_DEN >= min_z * EPS_DEN - EPS_NUM * GSCALE
        /\ p[2] * EPS_DEN <= max_z * EPS_DEN + EPS_NUM * GSCALE

\* a segments_intersect that does not test the endpoints of its second argument
segments_intersect_first_only(a, b) ==
    LET d1 == direction(b, SegStart(a))
        d2 == direction(b, SegEnd(a))
        d3 == direction(a, SegStart(b))
        d4 == direction(a, SegEnd(b))
    IN  \/ /\ (GtEps(d1) /\ LtNegEps(d2)) \/ (LtNegEps(d1) /\ GtEps(d2))
           /\ (GtEps(d3) /\ LtNegEps(d4)) \/ (LtNegEps(d3) /\ GtEps(d4))
        \/ (AbsLtEps(d1) /\ on_segment(b, SegStart(a)))
        \/ (AbsLtEps(d2) /\ on_segment(b, SegEnd(a)))

\* segments_intersect(s1, s2)
segments_intersect(a, b) ==
    LET d1 == direction(b, SegStart(a))
        d2 == direction(b, SegEnd(a))
        d3 == direction(a, SegStart(b))
        d4 == direction(a, SegEnd(b))
    IN  \/ /\ (GtEps(d1) /\ LtNegEps(d2)) \/ (LtNegEps(d1) /\ GtEps(d2))
           /\ (GtEps(d3) /\ LtNegEps(d4)) \/ (LtNegEps(d3) /\ GtEps(d4))
        \/ (AbsLtEps(d1) /\ on_segment(b, SegStart(a)))
        \/ (AbsLtEps(d2) /\ on_segment(b, SegEnd(a)))
        \/ (AbsLtEps(d3) /\ on_segment(a, SegStart(b)))
        \/ (AbsLtEps(d4) /\ on_segment(a, SegEnd(b)))

\* the loop of continuous_collision_check from segment i (1-based) on
RECURSIVE continuous_scan(_, _, _, _)
continuous_scan(movement_segment, segs, i, result) ==
    IF i > Len(segs) THEN result
    ELSE IF segments_intersect(movement_segment, segs[i])
         THEN [result EXCEPT !.collided = TRUE, !.segment_index = Some(i - 1),
                             !.collision_type = Some(<<"OtherTrail", "">>)]
         ELSE continuous_scan(movement_segment, segs, i + 1, result)

\* continuous_collision_check(prev_x, prev_z, curr_x, curr_z, segments)
continuous_collision_check(prev_x, prev_z, curr_x, curr_z, segs) ==
    continuous_scan(Segment(prev_x, prev_z, curr_x, curr_z), segs, 1,
                    CollisionResult_default)

----------------------------------------------------------------------------
(* The rubber engine as a state machine: one action per operation          *)

MaxDt == 2          \* dt and durations range over 0..MaxDt half seconds
MaxPlayers == 2     \* position and total_players range over 0..MaxPlayers
MaxSteps == 3       \* calls made on one RubberState

PlayerIds == {"p1", "p2"}
DtValues == {k * HALF : k \in 0..MaxDt}
\* with_rubber arguments: below, inside and above the valid range
RubberArgs == {0, 2500, 10000}
\* apply_malus factors: below 0, inside [0, 1], above 1
FactorArgs == {-500, 0, 500, 2000}

\* the configurations a caller may hand to update_rubber
ConfigCandidates ==
    { [RUBBER_CONFIG EXCEPT !.decay_rate = d, !.base_rubber = b[1],
                            !.min_rubber = b[2], !.max_rubber = b[3]] :
        d \in {0, 500, 1000, 1500},
        b \in { <<1000, 50, 5000>>, <<1000, 100, 4000>>, <<6000, 5500, 7000>>,
                <<1000, 1000, 5000>>, <<1000, 0, 5000>>, <<1000, 100, 1000>> } }
ValidConfigs == { c \in ConfigCandidates : RubberConfig_validate(c) = "Ok" }

\* the range of cfg lies within RUBBER_CONFIG's
RangeWithinDefault(cfg) ==
    /\ cfg.min_rubber >= RUBBER_CONFIG.min_rubber
    /\ cfg.max_rubber <= RUBBER_CONFIG.max_rubber

----------------------------------------------------------------------------
(* The tables of the session module (lib.rs) as init leaves them.          *)
(* Positions and directions are thousandths.                               *)

\* Identity::default(), the owner of an AI row
Identity_default == "default"
\* the identity init stores as admin_id
ADMIN == "admin"

\* let num_players = 6
num_players == 6

\* format!("p{}", i + 1) for i in 0..num_players
PlayerKey == <<"p1", "p2", "p3", "p4", "p5", "p6">>
PlayerKeys == { PlayerKey[i] : i \in 1..num_players }

\* angle.cos() * spawn_radius, angle.sin() * spawn_radius, -angle.cos(),
\* -angle.sin() for angle = i * 2 PI / 6 and spawn_radius = 100.0
Spawn ==
    << [x |-> 100000, z |-> 0, dir_x |-> -1000, dir_z |-> 0],
       [x |-> 50000, z |-> 86603, dir_x |-> -500, dir_z |-> -866],
       [x |-> -50000, z |-> 86603, dir_x |-> 500, dir_z |-> -866],
       [x |-> -100000, z |-> 0, dir_x |-> 1000, dir_z |-> 0],
       [x |-> -50000, z |-> -86603, dir_x |-> 500, dir_z |-> 866],
       [x |-> 50000, z |-> -86603, dir_x |-> -500, dir_z |-> 866] >>

\* the index i + 1 of the row format!("p{}", i + 1)
KeyIndex(id) == CHOOSE i \in 1..num_players : PlayerKey[i] = id

personalities == <<"aggressive", "safe", "random", "aggressive", "safe", "random">>
colors == <<65535, 65280, 16711680, 16711935, 16776960, 16746496>>

\* the player table after init
init_player ==
    [ id \in PlayerKeys |->
        LET i == KeyIndex(id)
        IN  [ id |-> id, owner_id |-> Identity_default, is_ai |-> TRUE,
              personality |-> personalities[i], color |-> colors[i],
              x |-> Spawn[i].x, z |-> Spawn[i].z,
              dir_x |-> Spawn[i].dir_x, dir_z |-> Spawn[i].dir_z,
              speed |-> 0, is_braking |-> FALSE,
              is_turning_left |-> FALSE, is_turning_right |-> FALSE,
              alive |-> TRUE, ready |-> FALSE, turn_points_json |-> "[]" ] ]

\* the game_state row after init
init_game_state ==
    [ id |-> 1, winner_id |-> "", round_active |-> FALSE, countdown |-> 3,
      player_count |-> 6, alive_count |-> 6 ]

\* the global_config row after init
init_global_config ==
    [ version |-> 1, admin_id |-> ADMIN, base_speed |-> 40000,
      boost_speed |-> 70000, max_trail_length |-> 200000,
      slipstream_mode |-> "tail_only", turn_speed |-> 3000 ]

IdleRubber ==
    state = RubberState_new("p1") /\ last = "idle" /\ steps = 0 /\ custom = FALSE

IdleCollision ==
    /\ player = [id |-> "p1", x |-> 0, z |-> 0, dir_x |-> 0, dir_z |-> 1, alive |-> TRUE]
    /\ segments = <<>>
    /\ call = [fn |-> "none"]

IdleIntersect ==
    s1 = Segment(0, 0, 0, 0) /\ s2 = Segment(0, 0, 0, 0) /\ hit = None

IdleUsage ==
    client_rubber = 0 /\ server_rubber = 0 /\ tolerance = 0 /\ verdict = [kind |-> "none"]

IdleStep ==
    pre = RubberState_new("p1") /\ post = pre /\ invocation = [fn |-> "none"]

IdleArena ==
    /\ arena = [player_id |-> "p1", x |-> 0, z |-> 0, arena_size |-> 0, wall_distance |-> 0]
    /\ arena_verdict = [bounds |-> None, physics |-> None, wall |-> None]

IdleConfig ==
    /\ full_config = FullPhysicsConfig_default
    /\ injected = {}
    /\ config_verdict = [fn |-> "none"]

IdleDist ==
    probe = [px |-> 0, pz |-> 0, segment |-> Segment(0, 0, 0, 0)] /\ measured = None

IdleSession ==
    /\ player_table = init_player
    /\ game_state = init_game_state
    /\ global_config = init_global_config
    /\ disconnects = 0

\* a fresh RubberState on which apply_malus has not been called
penalty_start(st) ==
    [applied |-> FALSE, st |-> st, T |-> 0, full |-> 0, elapsed |-> 0, idle |-> 0]

IdlePenalty == penalty = penalty_start(RubberState_new("p1"))

IdleBonus == bonus = [fn |-> "none"]

IdleLate == IdleDist /\ IdleSession /\ IdlePenalty /\ IdleBonus

IdleMore == IdleStep /\ IdleArena /\ IdleConfig /\ IdleLate

InitRubber ==
    /\ IdleUsage /\ IdleCollision /\ IdleIntersect /\ IdleMore
    /\ \/ \E id \in PlayerIds : state = RubberState_new(id)
       \/ \E id \in PlayerIds, r \in RubberArgs : state = RubberState_with_rubber(id, r)
    /\ last = "new"
    /\ steps = 0
    /\ custom = FALSE

\* a call of the rubber engine leaves everything else alone
Called(op) ==
    /\ steps < MaxSteps /\ steps' = steps + 1 /\ last' = op
    /\ UNCHANGED <<usageVars, collisionVars, intersectVars, moreVars>>

\* update_rubber(state, dt, None)
UpdateRubberDefault ==
    \E dt \in DtValues :
        /\ state' = update_rubber(state, dt, RUBBER_CONFIG)
        /\ Called("update_rubber")
        /\ UNCHANGED custom

\* update_rubber(state, dt, Some(cfg)) for a cfg that passes validate()
UpdateRubberConfig ==
    \E dt \in DtValues, cfg \in ValidConfigs :
        /\ state' = update_rubber(state, dt, cfg)
        /\ Called("update_rubber_cfg")
        /\ custom' = (custom \/ ~RangeWithinDefault(cfg))

ApplyMalus ==
    \E duration \in DtValues, factor \in FactorArgs :
        /\ state' = apply_malus(state, duration, factor)
        /\ Called("apply_malus")
        /\ UNCHANGED custom

IncreaseRubberForPosition ==
    \E position \in 0..MaxPlayers, total_players \in 0..MaxPlayers :
        /\ state' = increase_rubber_for_position(state, position, total_players)
        /\ Called("increase_rubber_for_position")
        /\ UNCHANGED custom

ResetRubber ==
    /\ state' = reset_rubber(state)
    /\ Called("reset_rubber")
    /\ UNCHANGED custom

NextRubber ==
    \/ UpdateRubberDefault
    \/ UpdateRubberConfig
    \/ ApplyMalus
    \/ IncreaseRubberForPosition
    \/ ResetRubber

SpecRubber == InitRubber /\ [][NextRubber]_vars

----------------------------------------------------------------------------
(* Claims about the rubber engine, under SpecRubber                        *)

RubberInDefaultRange ==
    /\ state.rubber >= RUBBER_CONFIG.min_rubber
    /\ state.rubber <= RUBBER_CONFIG.max_rubber

\* C2 as stated: after any sequence of update_rubber (config None or any
\* RubberConfig that passes validate()), apply_malus,
\* increase_rubber_for_position and reset_rubber calls, rubber is within
\* RUBBER_CONFIG's [min_rubber, max_rubber].
C2_RubberAlwaysInDefaultRange == RubberInDefaultRange

\* C2 amended: rubber is within RUBBER_CONFIG's [min_rubber, max_rubber] as
\* long as update_rubber was only given None or validated configurations
\* whose own [min_rubber, max_rubber] lies within RUBBER_CONFIG's.
C2_RubberInRangeUnlessCustomRange == (~custom) => RubberInDefaultRange

\* C2 witness: a custom in-range configuration and the default one have
\* decayed the rubber down to the lower bound, which the clamp holds.
C2_Witness ==
    /\ ~custom
    /\ last = "update_rubber_cfg"
    /\ steps >= 2
    /\ state.rubber = RUBBER_CONFIG.min_rubber

\* C3: malus >= 0, malus_timer >= 0, and malus_timer = 0 implies malus = 0.
C3_MalusInvariant ==
    /\ state.malus >= 0
    /\ state.malus_timer >= 0
    /\ (state.malus_timer = 0 => state.malus = 0)

\* C3 witness: apply_malus with a requested duration of 0 left a positive
\* malus running for the configured minimum duration.
C3_Witness ==
    /\ last = "apply_malus"
    /\ state.malus > 0
    /\ state.malus_timer = RUBBER_CONFIG.malus_duration

\* C30: after any sequence of operations, reset_rubber puts the RubberState
\* back to the values RubberState::new gives its player_id: rubber at
\* base_rubber, malus 0 and malus_timer 0, the player_id unchanged; and a
\* second reset_rubber changes nothing.
C30_ResetRestoresNew ==
    [][ (steps' = steps + 1 /\ last' = "reset_rubber")
        => /\ state' = RubberState_new(state.player_id)
           /\ reset_rubber(state') = state' ]_vars

\* C30 witness: reset_rubber was the last of several operations and the
\* state is the one RubberState::new builds.
C30_Witness ==
    /\ last = "reset_rubber" /\ steps >= 2
    /\ state = RubberState_new(state.player_id)

----------------------------------------------------------------------------
(* f32 arithmetic for validate_rubber_usage.  An f32 value below 2.0 is    *)
(* the integer number of 2^-30 it holds; it has at most 24 significant     *)
(* bits.  Sums and differences are exact on these integers and are then    *)
(* rounded to nearest, ties to even, as the hardware does.                 *)

RECURSIVE Pow2(_)
Pow2(k) == IF k = 0 THEN 1 ELSE 2 * Pow2(k - 1)

RECURSIVE BitLen(_)
BitLen(n) == IF n = 0 THEN 0 ELSE 1 + BitLen(n \div 2)

\* a / q rounded to the nearest integer, ties to even
RoundDiv(a, q) ==
    LET f == a \div q
        r == a % q
    IN  IF 2 * r < q THEN f
        ELSE IF 2 * r > q THEN f + 1
        ELSE IF f % 2 = 0 THEN f ELSE f + 1

\* the f32 nearest to the non-negative real n * 2^-30
F32Round(n) ==
    IF BitLen(n) <= 24 THEN n
    ELSE LET q == Pow2(BitLen(n) - 24) IN RoundDiv(n, q) * q

\* the f32 a decimal literal of h hundredths denotes (0 < h < 200)
F32Lit(h) ==
    IF h = 0 THEN 0
    ELSE LET k == CHOOSE k \in 22..30 :
                    /\ h * Pow2(k) >= 100 * Pow2(23)
                    /\ h * Pow2(k) < 100 * Pow2(24)
         IN  RoundDiv(h * Pow2(k), 100) * Pow2(30 - k)

\* a - b and a + b in f32 (the sign is kept outside the rounding)
F32Sub(a, b) == IF a >= b THEN F32Round(a - b) ELSE -F32Round(b - a)
F32Add(a, b) == F32Round(a + b)

\* collision::EPS = 0.01
EPS32 == F32Lit(1)

\* a validate_rubber_usage without the EPS margin
validate_rubber_usage_no_eps(client, server, tol) ==
    LET diff == Abs(F32Sub(client, server))
    IN  IF diff > tol
        THEN [kind |-> "RubberMismatch", client_value |-> client,
              server_value |-> server, tolerance |-> tol]
        ELSE [kind |-> "Ok"]

\* a validate_rubber_usage that forgets the absolute value
validate_rubber_usage_no_abs(client, server, tol) ==
    LET diff == F32Sub(client, server)
    IN  IF diff > F32Add(tol, EPS32)
        THEN [kind |-> "RubberMismatch", client_value |-> client,
              server_value |-> server, tolerance |-> tol]
        ELSE [kind |-> "Ok"]

\* validate_rubber_usage(client_rubber, server_rubber, tolerance)
validate_rubber_usage(client, server, tol) ==
    LET diff == Abs(F32Sub(client, server))
    IN  IF diff > F32Add(tol, EPS32)
        THEN [kind |-> "RubberMismatch", client_value |-> client,
              server_value |-> server, tolerance |-> tol]
        ELSE [kind |-> "Ok"]

MaxOver == 1    \* rubber values range over 1.00 .. 1.60 + MaxOver hundredths

\* the f32 values of the decimal literals a caller writes
UsageRubbers == { F32Lit(h) : h \in 100..(160 + MaxOver) }
UsageTolerances == { F32Lit(h) : h \in {0, 1, 5, 10, 11, 50} }

InitUsage ==
    /\ IdleRubber /\ IdleCollision /\ IdleIntersect /\ IdleMore
    /\ client_rubber \in UsageRubbers
    /\ server_rubber \in UsageRubbers
    /\ tolerance \in UsageTolerances
    /\ verdict = [kind |-> "none"]

ValidateRubberUsage ==
    /\ verdict.kind = "none"
    /\ verdict' = validate_rubber_usage(client_rubber, server_rubber, tolerance)
    /\ UNCHANGED <<client_rubber, server_rubber, tolerance>>
    /\ UNCHANGED <<rubberVars, collisionVars, intersectVars, moreVars>>

NextUsage == ValidateRubberUsage

SpecUsage == InitUsage /\ [][NextUsage]_vars

\* C4: validate_rubber_usage returns Err(RubberMismatch) exactly when
\* |client - server| > tolerance + EPS and Ok otherwise, a difference equal
\* to the tolerance passes, and the error carries the three arguments.
C4_UsageVerdict ==
    verdict.kind # "none" =>
        LET diff == Abs(F32Sub(client_rubber, server_rubber))
        IN  /\ (verdict.kind = "RubberMismatch") = (diff > F32Add(tolerance, EPS32))
            /\ verdict.kind \in {"RubberMismatch", "Ok"}
            /\ (diff = tolerance => verdict.kind = "Ok")
            /\ verdict.kind = "RubberMismatch" =>
                   /\ verdict.client_value = client_rubber
                   /\ verdict.server_value = server_rubber
                   /\ verdict.tolerance = tolerance

\* C4 witness: the test's call (1.0, 1.1, 0.1), whose f32 difference
\* 0.10000002 is above the tolerance and within the margin, has passed.
C4_Witness ==
    /\ client_rubber = F32Lit(100) /\ server_rubber = F32Lit(110)
    /\ tolerance = F32Lit(10)
    /\ Abs(F32Sub(client_rubber, server_rubber)) > tolerance
    /\ verdict.kind # "none" /\ verdict.kind = "Ok"

\* C5: validate_rubber_usage(1.5, 1.61, 0.1) returns Err(RubberMismatch).
C5_JustOverTolerance ==
    ( /\ client_rubber = F32Lit(150) /\ server_rubber = F32Lit(161)
      /\ tolerance = F32Lit(10) /\ verdict.kind # "none" )
    => verdict.kind = "RubberMismatch"

\* C5 witness: the call (1.5, 1.61, 0.1) was made and failed.
C5_Witness ==
    /\ client_rubber = F32Lit(150) /\ server_rubber = F32Lit(161)
    /\ tolerance = F32Lit(10)
    /\ verdict.kind # "none" /\ verdict.kind = "RubberMismatch"

----------------------------------------------------------------------------
(* The collision checks, applied to a player and a trail                   *)

GridFar == 64   \* the far coordinate, in 1/GSCALE: one unit of the arena
MaxSegs == 2    \* segments in a trail

GridCoords == {0, 1, 2, GridFar}
GridPoints == GridCoords \X GridCoords

\* the trail segments: short, long, diagonal and degenerate ones
TrailSegs ==
    { Segment(1, 0, 1, 2), Segment(0, 1, GridFar, 1), Segment(2, 2, 2, 2),
      Segment(0, 0, GridFar, GridFar), Segment(0, 2, 2, 0) }
RECURSIVE SeqsUpTo(_, _)
SeqsUpTo(S, n) ==
    IF n = 0 THEN {<<>>}
    ELSE LET shorter == SeqsUpTo(S, n - 1)
         IN  shorter \cup { Append(q, e) : q \in shorter, e \in S }
\* death radii, in 1/GSCALE
DeathRadii == {0, 1, 2, GridFar}

InitCollision ==
    /\ IdleRubber /\ IdleUsage /\ IdleIntersect /\ IdleMore
    /\ \E p \in GridPoints, alive \in BOOLEAN :
          player = [id |-> "p1", x |-> p[1], z |-> p[2], dir_x |-> 0, dir_z |-> 1,
                    alive |-> alive]
    /\ segments \in SeqsUpTo(TrailSegs, MaxSegs)
    /\ call = [fn |-> "none"]

CollisionFrame ==
    UNCHANGED <<player, segments, rubberVars, usageVars, intersectVars, moreVars>>

CheckTrailCollision ==
    \E death_radius \in DeathRadii :
        /\ call.fn = "none"
        /\ call' = [fn |-> "check_trail_collision", death_radius |-> death_radius,
                    result |-> check_trail_collision(player, segments, death_radius)]
        /\ CollisionFrame

CheckTrailCollisionWithOwner ==
    \E death_radius \in DeathRadii, trail_owner_id \in PlayerIds :
        /\ call.fn = "none"
        /\ call' = [fn |-> "check_trail_collision_with_owner",
                    death_radius |-> death_radius, trail_owner_id |-> trail_owner_id,
                    result |-> check_trail_collision_with_owner(
                                   player, trail_owner_id, segments, death_radius)]
        /\ CollisionFrame

\* the player has moved from prev to its position
ContinuousCollisionCheck ==
    \E prev \in GridPoints :
        /\ call.fn = "none"
        /\ call' = [fn |-> "continuous_collision_check", prev |-> prev,
                    result |-> continuous_collision_check(
                                   prev[1], prev[2], player.x, player.z, segments)]
        /\ CollisionFrame

NextCollision ==
    \/ CheckTrailCollision
    \/ CheckTrailCollisionWithOwner
    \/ ContinuousCollisionCheck

SpecCollision == InitCollision /\ [][NextCollision]_vars

----------------------------------------------------------------------------
(* Claims about the collision checks, under SpecCollision                  *)

Called_(fns) == call.fn \in fns

\* the trail segment of 0-based index i, and the player's squared distance to it
TrailSeg(i) == segments[i + 1]
PlayerDistSq(i) ==
    distance_to_segment_squared(player.x, player.z,
        TrailSeg(i).start_x, TrailSeg(i).start_z, TrailSeg(i).end_x, TrailSeg(i).end_z)
WithinRadius(i) ==
    FracLess(PlayerDistSq(i), Frac(call.death_radius * call.death_radius, 1))
TrailIndices == 0..(Len(segments) - 1)

\* C1 as stated: every CollisionResult returned by check_trail_collision,
\* check_trail_collision_with_owner or continuous_collision_check has
\* collided = true only with collision_type Some.
C1_CollidedHasType ==
    Called_({"check_trail_collision", "check_trail_collision_with_owner",
             "continuous_collision_check"})
    => (call.result.collided => call.result.collision_type # None)

\* C1 amended: a result of check_trail_collision_with_owner or
\* continuous_collision_check has collided = true only with collision_type
\* Some; check_trail_collision never sets collision_type, collided or not.
C1_TaggedByOwnerAndContinuous ==
    /\ Called_({"check_trail_collision_with_owner", "continuous_collision_check"})
       => (call.result.collided => call.result.collision_type # None)
    /\ Called_({"check_trail_collision"}) => call.result.collision_type = None

\* C1 witness: check_trail_collision_with_owner found a collision with
\* another player's trail and tagged it with the owner.
C1_Witness ==
    /\ call.fn = "check_trail_collision_with_owner"
    /\ call.result.collided
    /\ call.result.collision_type = Some(<<"OtherTrail", "p2">>)

\* a and b cross properly: the endpoints of each lie strictly on opposite
\* sides of the other
ProperCross(a, b) ==
    /\ direction(b, SegStart(a)) * direction(b, SegEnd(a)) < 0
    /\ direction(a, SegStart(b)) * direction(a, SegEnd(b)) < 0

Movement == Segment(call.prev[1], call.prev[2], player.x, player.z)

\* C6: continuous_collision_check never misses a crossing: if the movement
\* segment properly crosses at least one trail segment, collided is true.
C6_NeverMissesCrossing ==
    Called_({"continuous_collision_check"})
    => ( (\E i \in TrailIndices : ProperCross(Movement, TrailSeg(i)))
         => call.result.collided )

\* C7: for an alive player check_trail_collision collides exactly when some
\* segment is strictly closer than death_radius, and the result then carries
\* the lowest such index with that segment's distance, whatever the distances
\* of the later segments.
C7_FirstHitWins ==
    (Called_({"check_trail_collision"}) /\ player.alive)
    => /\ call.result.collided = (\E i \in TrailIndices : WithinRadius(i))
       /\ call.result.collided =>
            \E i \in TrailIndices :
                /\ call.result.segment_index = Some(i)
                /\ WithinRadius(i)
                /\ \A j \in 0..(i - 1) : ~WithinRadius(j)
                /\ call.result.distance = PlayerDistSq(i)

\* C7 witness: the first segment was hit although the second one is closer.
C7_Witness ==
    /\ call.fn = "check_trail_collision" /\ player.alive
    /\ call.result.collided
    /\ call.result.segment_index = Some(0)
    /\ Len(segments) >= 2
    /\ FracLess(PlayerDistSq(1), PlayerDistSq(0))

\* C8: for a dead player check_trail_collision returns collided = false, and
\* check_trail_collision_with_owner returns collided = false and no type.
C8_DeadPlayerNeverCollides ==
    (Called_({"check_trail_collision", "check_trail_collision_with_owner"})
        /\ ~player.alive)
    => /\ ~call.result.collided
       /\ call.result.collision_type = None

\* C8 witness: a dead player within the death radius of a segment was checked
\* against its trail with an owner.
C8_Witness ==
    /\ call.fn = "check_trail_collision_with_owner" /\ ~player.alive
    /\ \E i \in TrailIndices : WithinRadius(i)
    /\ ~call.result.collided

\* C22: when no segment is closer than death_radius to an alive player,
\* check_trail_collision returns collided = false, as distance the minimum
\* over all segments, and as segment_index the lowest index attaining that
\* minimum; for an empty segment list it returns distance f32::MAX and
\* segment_index None.
C22_MissReportsClosest ==
    (Called_({"check_trail_collision"}) /\ player.alive
        /\ \A i \in TrailIndices : ~WithinRadius(i))
    => /\ ~call.result.collided
       /\ segments = <<>> =>
            /\ call.result.distance = F32_MAX
            /\ call.result.segment_index = None
       /\ segments # <<>> =>
            \E i \in TrailIndices :
                /\ call.result.segment_index = Some(i)
                /\ call.result.distance = PlayerDistSq(i)
                /\ \A j \in TrailIndices : ~FracLess(PlayerDistSq(j), PlayerDistSq(i))
                /\ \A j \in 0..(i - 1) : FracLess(PlayerDistSq(i), PlayerDistSq(j))

\* C22 witness: an alive player missed two segments that are equally far from
\* it, at a positive death radius, and the first one was reported.
C22_Witness ==
    /\ call.fn = "check_trail_collision" /\ player.alive
    /\ call.death_radius > 0
    /\ Len(segments) = 2
    /\ PlayerDistSq(0) = PlayerDistSq(1)
    /\ ~call.result.collided
    /\ call.result.segment_index = Some(0)

----------------------------------------------------------------------------
(* segments_intersect, applied to two segments of the grid                 *)

GridSegments ==
    { Segment(a[1], a[2], b[1], b[2]) : a \in GridPoints, b \in GridPoints }

InitIntersect ==
    /\ IdleRubber /\ IdleUsage /\ IdleCollision /\ IdleMore
    /\ s1 \in GridSegments
    /\ s2 \in GridSegments
    /\ hit = None

SegmentsIntersect ==
    /\ hit = None
    /\ hit' = Some(segments_intersect(s1, s2))
    /\ UNCHANGED <<s1, s2, rubberVars, usageVars, collisionVars, moreVars>>

NextIntersect == SegmentsIntersect

SpecIntersect == InitIntersect /\ [][NextIntersect]_vars

\* p lies on segment s (exactly)
ExactOnSeg(s, p) ==
    /\ direction(s, p) = 0
    /\ p[1] >= Min(s.start_x, s.end_x) /\ p[1] <= Max(s.start_x, s.end_x)
    /\ p[2] >= Min(s.start_z, s.end_z) /\ p[2] <= Max(s.start_z, s.end_z)

\* a and b touch at a shared endpoint
SharedEndpoint(a, b) == {SegStart(a), SegEnd(a)} \cap {SegStart(b), SegEnd(b)} # {}

\* a and b lie on one line and have a point in common
CollinearOverlap(a, b) ==
    /\ direction(a, SegStart(b)) = 0 /\ direction(a, SegEnd(b)) = 0
    /\ direction(b, SegStart(a)) = 0 /\ direction(b, SegEnd(a)) = 0
    /\ \/ ExactOnSeg(a, SegStart(b)) \/ ExactOnSeg(a, SegEnd(b))
       \/ ExactOnSeg(b, SegStart(a)) \/ ExactOnSeg(b, SegEnd(a))

\* C9: segments_intersect(a, b) = segments_intersect(b, a), degenerate
\* segments included.
C9_IntersectSymmetric ==
    hit # None => hit = Some(segments_intersect(s2, s1))

\* C9 witness: two different segments, one of them degenerate, were found to
\* intersect.
C9_Witness ==
    /\ hit = Some(TRUE)
    /\ s1 # s2
    /\ SegStart(s2) = SegEnd(s2)
    /\ SegStart(s1) # SegEnd(s1)

----------------------------------------------------------------------------
(* One call of the rubber engine on a RubberState that the engine's own    *)
(* operations have built, with the call's arguments kept                   *)

\* update_rubber's config: None (RUBBER_CONFIG) or one that passes validate()
StepConfigs == ValidConfigs \cup {RUBBER_CONFIG}

\* RubberState::new / with_rubber, then at most one apply_malus, then at
\* most one update_rubber
StepConstructed ==
    { RubberState_new(id) : id \in PlayerIds }
        \cup { RubberState_with_rubber(id, r) : id \in PlayerIds, r \in RubberArgs }
StepPenalised ==
    StepConstructed
        \cup { apply_malus(st, d, f) : st \in StepConstructed, d \in DtValues, f \in FactorArgs }
StepStates ==
    StepPenalised
        \cup { update_rubber(st, dt, cfg) : st \in StepPenalised, dt \in DtValues, cfg \in StepConfigs }

InitStep ==
    /\ IdleRubber /\ IdleUsage /\ IdleCollision /\ IdleIntersect
    /\ IdleArena /\ IdleConfig /\ IdleLate
    /\ pre \in StepStates
    /\ post = pre
    /\ invocation = [fn |-> "none"]

\* one call is made on pre; everything else is left alone
StepFrame ==
    /\ invocation.fn = "none"
    /\ UNCHANGED <<pre, rubberVars, usageVars, collisionVars, intersectVars,
                   arenaVars, configVars, lateVars>>

StepUpdateRubber ==
    \E dt \in DtValues, cfg \in StepConfigs :
        /\ StepFrame
        /\ post' = update_rubber(pre, dt, cfg)
        /\ invocation' = [fn |-> "update_rubber", dt |-> dt, cfg |-> cfg,
                          result |-> post'.rubber]

StepApplyMalus ==
    \E duration \in DtValues, factor \in FactorArgs :
        /\ StepFrame
        /\ post' = apply_malus(pre, duration, factor)
        /\ invocation' = [fn |-> "apply_malus", duration |-> duration,
                          factor |-> factor, result |-> post'.malus]

StepIncreaseRubberForPosition ==
    \E position \in 0..MaxPlayers, total_players \in 0..MaxPlayers :
        /\ StepFrame
        /\ post' = increase_rubber_for_position(pre, position, total_players)
        /\ invocation' = [fn |-> "increase_rubber_for_position",
                          position |-> position, total_players |-> total_players,
                          result |-> post'.rubber]

NextStep ==
    \/ StepUpdateRubber
    \/ StepApplyMalus
    \/ StepIncreaseRubberForPosition

SpecStep == InitStep /\ [][NextStep]_vars

\* rubber lies within cfg's [min_rubber, max_rubber]
InRange(rubber, cfg) == rubber >= cfg.min_rubber /\ rubber <= cfg.max_rubber

\* C11 as stated: for any state reachable through the engine's operations,
\* any dt >= 0 and any config that passes validate() (or None), the rubber
\* after update_rubber is <= the rubber before and lies within that
\* config's [min_rubber, max_rubber].
C11_UpdateNeverIncreases ==
    invocation.fn = "update_rubber" =>
        /\ post.rubber <= pre.rubber
        /\ InRange(post.rubber, invocation.cfg)

\* C11 amended: the rubber after update_rubber lies within the config's
\* [min_rubber, max_rubber] and is returned; it is <= the rubber before
\* whenever the rubber before was at least the config's min_rubber, and it
\* is the config's min_rubber, an increase, when the rubber before was
\* below it.
C11_UpdateNeverIncreasesFromRange ==
    invocation.fn = "update_rubber" =>
        /\ InRange(post.rubber, invocation.cfg)
        /\ invocation.result = post.rubber
        /\ pre.rubber >= invocation.cfg.min_rubber => post.rubber <= pre.rubber
        /\ pre.rubber < invocation.cfg.min_rubber =>
               post.rubber = invocation.cfg.min_rubber

\* C11 witness: a positive dt under a validated custom configuration has
\* decayed a rubber inside that configuration's range to a smaller value
\* still above its floor.
C11_Witness ==
    /\ invocation.fn = "update_rubber"
    /\ invocation.cfg # RUBBER_CONFIG
    /\ invocation.dt > 0
    /\ InRange(pre.rubber, invocation.cfg)
    /\ post.rubber < pre.rubber
    /\ post.rubber > invocation.cfg.min_rubber

\* C12: under update_rubber, when malus_timer > 0 before the call the call
\* subtracts dt from it; a result > 0 leaves malus unchanged, a result <= 0
\* sets both malus_timer and malus to exactly 0 in that same call.  When
\* malus_timer is 0 before the call neither field changes.
C12_MalusBinary ==
    invocation.fn = "update_rubber" =>
        LET t == pre.malus_timer - invocation.dt
        IN  /\ (pre.malus_timer > 0 /\ t > 0) =>
                   post.malus_timer = t /\ post.malus = pre.malus
            /\ (pre.malus_timer > 0 /\ t <= 0) =>
                   post.malus_timer = 0 /\ post.malus = 0
            /\ pre.malus_timer = 0 =>
                   post.malus_timer = 0 /\ post.malus = pre.malus

\* C12 witness: a running, positive malus met a dt equal to what was left
\* of its timer, and both fields were cleared.
C12_Witness ==
    /\ invocation.fn = "update_rubber"
    /\ pre.malus > 0 /\ pre.malus_timer > 0
    /\ invocation.dt = pre.malus_timer
    /\ post.malus = 0 /\ post.malus_timer = 0

\* a running, positive malus outlives a shorter dt: the other half of C12
C12_StillRunning ==
    /\ invocation.fn = "update_rubber"
    /\ pre.malus > 0 /\ invocation.dt > 0
    /\ post.malus_timer > 0 /\ post.malus_timer < pre.malus_timer
    /\ post.malus = pre.malus

\* C13: apply_malus(state, duration, factor) sets malus = rubber *
\* clamp(factor, 0, 1) * malus_factor and malus_timer = max(duration,
\* malus_duration): malus_timer >= malus_duration after every call, a
\* factor above 1 gives the malus of factor 1, and rubber and player_id are
\* left unchanged.
C13_ApplyMalus ==
    invocation.fn = "apply_malus" =>
        LET clamped == IF invocation.factor < 0 THEN 0
                       ELSE IF invocation.factor > RSCALE THEN RSCALE
                       ELSE invocation.factor
        IN  /\ post.malus = Mul(Mul(pre.rubber, clamped), RUBBER_CONFIG.malus_factor)
            /\ invocation.result = post.malus
            /\ post.malus_timer >= RUBBER_CONFIG.malus_duration
            /\ post.malus_timer >= invocation.duration
            /\ post.malus_timer \in {invocation.duration, RUBBER_CONFIG.malus_duration}
            /\ invocation.factor > RSCALE =>
                   post.malus = apply_malus(pre, invocation.duration, RSCALE).malus
            /\ post.rubber = pre.rubber
            /\ post.player_id = pre.player_id

\* C13 witness: a factor of 2.0 and a duration of 0 on player p2 gave a
\* positive malus lasting the configured minimum.
C13_Witness ==
    /\ invocation.fn = "apply_malus"
    /\ invocation.factor > RSCALE /\ invocation.duration = 0
    /\ pre.player_id = "p2"
    /\ post.malus > 0
    /\ post.malus_timer = RUBBER_CONFIG.malus_duration

\* the call was a no-op that returned the rubber it found
StepNoOp == post = pre /\ invocation.result = pre.rubber

\* C16 as stated: increase_rubber_for_position gives position 1 no rubber
\* increase for every total_players >= 1 (rubber after <= rubber before),
\* and the call is a no-op when total_players = 0 or position = 0.
C16_FirstPlaceNoIncrease ==
    invocation.fn = "increase_rubber_for_position" =>
        /\ (invocation.position = 1 /\ invocation.total_players >= 1) =>
               post.rubber <= pre.rubber
        /\ (invocation.total_players = 0 \/ invocation.position = 0) => StepNoOp

\* C16 amended: position 1 gets no rubber increase for every total_players
\* >= 2 when the rubber before is at least RUBBER_CONFIG's min_rubber; with
\* total_players = 1 position 1 is last place too and takes the full 0.1,
\* clamped; a rubber below min_rubber is raised to it by the clamp; the call
\* is a no-op when total_players = 0 or position = 0, and never touches
\* another field.
C16_FirstPlaceOfSeveralNoIncrease ==
    invocation.fn = "increase_rubber_for_position" =>
        LET cfg == RUBBER_CONFIG
            first == invocation.position = 1
        IN  /\ (first /\ invocation.total_players >= 2 /\ pre.rubber >= cfg.min_rubber) =>
                   post.rubber <= pre.rubber
            /\ (first /\ invocation.total_players >= 2 /\ InRange(pre.rubber, cfg)) =>
                   post.rubber = pre.rubber
            /\ (first /\ invocation.total_players = 1 /\ InRange(pre.rubber, cfg)) =>
                   post.rubber = Min(pre.rubber + RSCALE \div 10, cfg.max_rubber)
            /\ (first /\ invocation.total_players >= 1 /\ pre.rubber < cfg.min_rubber) =>
                   post.rubber >= cfg.min_rubber
            /\ (invocation.total_players = 0 \/ invocation.position = 0) => StepNoOp
            /\ post = [pre EXCEPT !.rubber = post.rubber]

\* C16 witness: the leader of several players, holding a rubber inside the
\* range and a running malus, was given nothing.
C16_Witness ==
    /\ invocation.fn = "increase_rubber_for_position"
    /\ invocation.position = 1 /\ invocation.total_players >= 2
    /\ pre.rubber > RUBBER_CONFIG.min_rubber /\ pre.rubber < RUBBER_CONFIG.max_rubber
    /\ pre.malus_timer > 0
    /\ post = pre

----------------------------------------------------------------------------
(* The read-only queries of the rubber engine on any RubberState, those    *)
(* outside the engine's invariants included                                *)

\* rubber below 0, below min_rubber, inside the range and above max_rubber
QueryRubbers == {-1000, 0, 50, 100, 1000, 2600, 5000, 9000}
\* malus below 0, idle, as apply_malus leaves it, and far above 1
QueryMaluses == {-2000, 0, 300, 1500, 9000}
QueryTimers == {-500, 0, 500}
\* base_speed >= 0, in even thousandths so that its half is a thousandth
BaseSpeeds == {0, 2, 40000, 70000}

QueryStates ==
    [ player_id : {"p1"}, rubber : QueryRubbers, malus : QueryMaluses,
      malus_timer : QueryTimers ]

InitQuery ==
    /\ IdleRubber /\ IdleUsage /\ IdleCollision /\ IdleIntersect
    /\ IdleArena /\ IdleConfig /\ IdleLate
    /\ pre \in QueryStates
    /\ post = pre
    /\ invocation = [fn |-> "none"]

\* a query borrows the state (&RubberState) and leaves it as it was
QueryFrame ==
    /\ invocation.fn = "none"
    /\ UNCHANGED <<pre, post, rubberVars, usageVars, collisionVars, intersectVars,
                   arenaVars, configVars, lateVars>>

CalculateEffectiveness ==
    /\ QueryFrame
    /\ invocation' = [fn |-> "calculate_effectiveness",
                      result |-> calculate_effectiveness(pre)]

CalculateSpeedModifier ==
    \E base_speed \in BaseSpeeds :
        /\ QueryFrame
        /\ invocation' = [fn |-> "calculate_speed_modifier", base_speed |-> base_speed,
                          result |-> calculate_speed_modifier(pre, base_speed)]

NextQuery ==
    \/ CalculateEffectiveness
    \/ CalculateSpeedModifier

SpecQuery == InitQuery /\ [][NextQuery]_vars

\* C14: calculate_effectiveness returns a value within [0, 1] for every
\* RubberState, those outside the engine's invariants included, and does
\* not modify the state.
C14_EffectivenessInUnitRange ==
    invocation.fn = "calculate_effectiveness" =>
        /\ invocation.result >= 0
        /\ invocation.result <= RSCALE
        /\ post = pre

\* C14 witness: a negative malus with a running timer, which no engine
\* operation produces, pushed the raw value above 1 and the result is 1.
C14_Witness ==
    /\ invocation.fn = "calculate_effectiveness"
    /\ pre.malus < 0 /\ pre.malus_timer > 0
    /\ pre.rubber < RUBBER_CONFIG.min_rubber
    /\ invocation.result = RSCALE

\* C15: calculate_speed_modifier(state, base_speed) never returns less than
\* 50% of base_speed for any base_speed >= 0 and any rubber and malus: the
\* result is base_speed * max(1 + (rubber - base_rubber) * rubber_speed *
\* 0.01 - malus, 0.5).
C15_SpeedModifierFloor ==
    invocation.fn = "calculate_speed_modifier" =>
        LET cfg == RUBBER_CONFIG
            boost == Mul(Mul(pre.rubber - cfg.base_rubber, cfg.rubber_speed), RSCALE \div 100)
            modifier == RSCALE + boost - pre.malus
            floored == IF modifier < RSCALE \div 2 THEN RSCALE \div 2 ELSE modifier
        IN  /\ 2 * invocation.result >= invocation.base_speed
            /\ invocation.result >= Mul(invocation.base_speed, RSCALE \div 2)
            /\ invocation.result = Mul(invocation.base_speed, floored)
            /\ post = pre

\* C15 witness: a malus of 9.0 took the modifier below zero and the speed
\* returned is exactly half of a positive base_speed.
C15_Witness ==
    /\ invocation.fn = "calculate_speed_modifier"
    /\ invocation.base_speed > 0
    /\ pre.malus > RSCALE /\ pre.rubber <= RUBBER_CONFIG.base_rubber
    /\ 2 * invocation.result = invocation.base_speed

----------------------------------------------------------------------------
(* Arena bounds and walls (collision.rs, mod.rs).  Coordinates, arena_size *)
(* and wall_distance are thousandths, in whole half units; on these every  *)
(* f32 difference is exact.                                                *)

\* collision::COLLISION_CONFIG
COLLISION_CONFIG ==
    [ death_radius |-> 2000, bike_collision_dist |-> 3000,
      trail_collision_dist |-> 2500, wall_collision_dist |-> 1000,
      slipstream_distance |-> 5000, slipstream_angle |-> 300 ]

\* PhysicsError::OutOfBounds { x, z, arena_size }
OutOfBounds(x_, z_, arena_size_) ==
    [kind |-> "OutOfBounds", x |-> x_, z |-> z_, arena_size |-> arena_size_]

\* a check_arena_bounds that rejects the bound itself
check_arena_bounds_exclusive(x_, z_, arena_size_) ==
    LET bound == arena_size_ - COLLISION_CONFIG.wall_collision_dist
    IN  IF Abs(x_) >= bound \/ Abs(z_) >= bound
        THEN OutOfBounds(x_, z_, arena_size_)
        ELSE [kind |-> "Ok"]

\* check_arena_bounds(x, z, arena_size)
check_arena_bounds(x_, z_, arena_size_) ==
    LET bound == arena_size_ - COLLISION_CONFIG.wall_collision_dist
    IN  IF Abs(x_) > bound \/ Abs(z_) > bound
        THEN OutOfBounds(x_, z_, arena_size_)
        ELSE [kind |-> "Ok"]

\* validate_physics_state(_player_id, x, z, arena_size)
validate_physics_state(player_id_, x_, z_, arena_size_) ==
    IF check_arena_bounds(x_, z_, arena_size_).kind # "Ok"
    THEN OutOfBounds(x_, z_, arena_size_)
    ELSE [kind |-> "Ok"]

\* a check_wall_collision that lets the bound itself pass
check_wall_collision_strict(x_, z_, arena_size_, wall_distance_) ==
    LET bound == arena_size_ - wall_distance_
    IN  Abs(x_) > bound \/ Abs(z_) > bound

\* check_wall_collision(x, z, arena_size, wall_distance)
check_wall_collision(x_, z_, arena_size_, wall_distance_) ==
    LET bound == arena_size_ - wall_distance_
    IN  Abs(x_) >= bound \/ Abs(z_) >= bound

MaxArena == 2       \* arena_size ranges over 0 .. MaxArena, coordinates half a unit beyond

ArenaSizes == { k * (RSCALE \div 2) : k \in 0..(2 * MaxArena) }
ArenaCoords == { k * (RSCALE \div 2) : k \in -(2 * MaxArena + 1)..(2 * MaxArena + 1) }
\* no margin, the configured wall_collision_dist, and a wider margin
WallDistances == {0, COLLISION_CONFIG.wall_collision_dist, 1500}

InitArena ==
    /\ IdleRubber /\ IdleUsage /\ IdleCollision /\ IdleIntersect
    /\ IdleStep /\ IdleConfig /\ IdleLate
    /\ arena \in [ player_id : PlayerIds, x : ArenaCoords, z : ArenaCoords,
                   arena_size : ArenaSizes, wall_distance : WallDistances ]
    /\ arena_verdict = [bounds |-> None, physics |-> None, wall |-> None]

ArenaFrame ==
    UNCHANGED <<arena, rubberVars, usageVars, collisionVars, intersectVars,
                stepVars, configVars, lateVars>>

CheckArenaBounds ==
    /\ arena_verdict.bounds = None
    /\ arena_verdict' = [arena_verdict EXCEPT !.bounds =
           Some(check_arena_bounds(arena.x, arena.z, arena.arena_size))]
    /\ ArenaFrame

ValidatePhysicsState ==
    /\ arena_verdict.physics = None
    /\ arena_verdict' = [arena_verdict EXCEPT !.physics =
           Some(validate_physics_state(arena.player_id, arena.x, arena.z,
                                       arena.arena_size))]
    /\ ArenaFrame

CheckWallCollision ==
    /\ arena_verdict.wall = None
    /\ arena_verdict' = [arena_verdict EXCEPT !.wall =
           Some(check_wall_collision(arena.x, arena.z, arena.arena_size,
                                     arena.wall_distance))]
    /\ ArenaFrame

NextArena ==
    \/ CheckArenaBounds
    \/ ValidatePhysicsState
    \/ CheckWallCollision

SpecArena == InitArena /\ [][NextArena]_vars

\* the larger of |x| and |z| of the position checked
ArenaReach == IF Abs(arena.x) > Abs(arena.z) THEN Abs(arena.x) ELSE Abs(arena.z)

\* arena_size - 1.0
ArenaBound == arena.arena_size - RSCALE

\* C17: check_arena_bounds(x, z, arena_size) returns Ok exactly when
\* |x| <= arena_size - 1.0 and |z| <= arena_size - 1.0, a position exactly
\* on the bound being valid, and otherwise OutOfBounds carrying the same x,
\* z and arena_size; validate_physics_state returns the same verdict for
\* every player id.
C17_ArenaBounds ==
    LET inside == Abs(arena.x) <= ArenaBound /\ Abs(arena.z) <= ArenaBound
        expected == IF inside THEN [kind |-> "Ok"]
                    ELSE [kind |-> "OutOfBounds", x |-> arena.x, z |-> arena.z,
                          arena_size |-> arena.arena_size]
    IN  /\ arena_verdict.bounds # None => arena_verdict.bounds = Some(expected)
        /\ arena_verdict.physics # None => arena_verdict.physics = Some(expected)

\* C17 witness: a position exactly on the bound of a real arena was
\* accepted by both entry points, for player p2.
C17_Witness ==
    /\ ArenaBound > 0 /\ ArenaReach = ArenaBound
    /\ arena.player_id = "p2"
    /\ arena_verdict.bounds = Some([kind |-> "Ok"])
    /\ arena_verdict.physics = Some([kind |-> "Ok"])

\* C18: check_wall_collision(x, z, arena_size, wall_distance) is true exactly
\* when max(|x|, |z|) >= arena_size - wall_distance; with wall_distance the
\* configured wall_collision_dist it is true whenever check_arena_bounds
\* rejects the position, and the two verdicts differ only for positions
\* exactly on the bound.
C18_WallCollision ==
    arena_verdict.wall # None =>
        LET wall == arena_verdict.wall[1]
            configured == arena.wall_distance = COLLISION_CONFIG.wall_collision_dist
            rejected == arena_verdict.bounds[1].kind # "Ok"
        IN  /\ wall = (ArenaReach >= arena.arena_size - arena.wall_distance)
            /\ (configured /\ arena_verdict.bounds # None) =>
                   /\ rejected => wall
                   /\ (wall # rejected) = (ArenaReach = ArenaBound)

\* C18 witness: with the configured wall distance a position exactly on the
\* bound of a real arena is a wall collision that check_arena_bounds accepts.
C18_Witness ==
    /\ arena.wall_distance = COLLISION_CONFIG.wall_collision_dist
    /\ ArenaBound > 0 /\ ArenaReach = ArenaBound
    /\ arena_verdict.wall = Some(TRUE)
    /\ arena_verdict.bounds = Some([kind |-> "Ok"])

----------------------------------------------------------------------------
(* Validation of a FullPhysicsConfig (config.rs): a preset in which some   *)
(* fields were given values that one check of validate() rejects           *)

MaxFaults == 2      \* how many fields of one configuration are made invalid

\* One entry per way of failing a check, in the order in which
\* FullPhysicsConfig::validate reaches the checks: the field to overwrite,
\* a value the check rejects, and the reason the check reports.
Faults == <<
    [bundle |-> "physics", field |-> "base_speed", value |-> 0,
     reason |-> "base_speed must be positive"],
    [bundle |-> "physics", field |-> "boost_speed", value |-> 0,
     reason |-> "boost_speed must be greater than base_speed"],
    [bundle |-> "physics", field |-> "brake_speed", value |-> 100000,
     reason |-> "brake_speed must be less than base_speed"],
    [bundle |-> "physics", field |-> "turn_speed", value |-> 0,
     reason |-> "turn_speed must be positive"],
    [bundle |-> "physics", field |-> "turn_delay", value |-> -1,
     reason |-> "turn_delay cannot be negative"],
    [bundle |-> "physics", field |-> "turn_penalty", value |-> -1,
     reason |-> "turn_penalty must be between 0.0 and 1.0"],
    [bundle |-> "physics", field |-> "turn_penalty", value |-> 1001,
     reason |-> "turn_penalty must be between 0.0 and 1.0"],
    [bundle |-> "physics", field |-> "acceleration", value |-> 0,
     reason |-> "acceleration must be positive"],
    [bundle |-> "physics", field |-> "deceleration", value |-> -1000,
     reason |-> "deceleration must be positive"],
    [bundle |-> "physics", field |-> "min_speed", value |-> -1,
     reason |-> "min_speed cannot be negative"],
    [bundle |-> "physics", field |-> "max_speed", value |-> 5000,
     reason |-> "max_speed must be greater than min_speed"],
    [bundle |-> "collision", field |-> "death_radius", value |-> 0,
     reason |-> "death_radius must be positive"],
    [bundle |-> "collision", field |-> "bike_collision_dist", value |-> 0,
     reason |-> "bike_collision_dist must be positive"],
    [bundle |-> "collision", field |-> "trail_collision_dist", value |-> -2500,
     reason |-> "trail_collision_dist must be positive"],
    [bundle |-> "collision", field |-> "wall_collision_dist", value |-> 0,
     reason |-> "wall_collision_dist must be positive"],
    [bundle |-> "collision", field |-> "slipstream_distance", value |-> 0,
     reason |-> "slipstream_distance must be positive"],
    [bundle |-> "collision", field |-> "slipstream_angle", value |-> 0,
     reason |-> "slipstream_angle must be between 0 and PI/2"],
    [bundle |-> "collision", field |-> "slipstream_angle", value |-> 1571,
     reason |-> "slipstream_angle must be between 0 and PI/2"],
    [bundle |-> "rubber", field |-> "base_rubber", value |-> 0,
     reason |-> "base_rubber must be positive"],
    [bundle |-> "rubber", field |-> "server_rubber", value |-> 0,
     reason |-> "server_rubber must be positive"],
    [bundle |-> "rubber", field |-> "rubber_speed", value |-> 0,
     reason |-> "rubber_speed must be positive"],
    [bundle |-> "rubber", field |-> "min_distance", value |-> 0,
     reason |-> "min_distance must be positive"],
    [bundle |-> "rubber", field |-> "malus_duration", value |-> 0,
     reason |-> "malus_duration must be positive"],
    [bundle |-> "rubber", field |-> "malus_factor", value |-> -1,
     reason |-> "malus_factor must be between 0.0 and 1.0"],
    [bundle |-> "rubber", field |-> "malus_factor", value |-> 1001,
     reason |-> "malus_factor must be between 0.0 and 1.0"],
    [bundle |-> "rubber", field |-> "decay_rate", value |-> 0,
     reason |-> "decay_rate must be between 0.0 and 1.0"],
    [bundle |-> "rubber", field |-> "decay_rate", value |-> 1001,
     reason |-> "decay_rate must be between 0.0 and 1.0"],
    [bundle |-> "rubber", field |-> "max_rubber", value |-> 1000,
     reason |-> "max_rubber must be greater than base_rubber"],
    [bundle |-> "rubber", field |-> "min_rubber", value |-> 0,
     reason |-> "min_rubber must be positive and less than base_rubber"],
    [bundle |-> "rubber", field |-> "min_rubber", value |-> 1000,
     reason |-> "min_rubber must be positive and less than base_rubber"],
    [bundle |-> "rubber", field |-> "effectiveness_threshold", value |-> -1,
     reason |-> "effectiveness_threshold must be between 0.0 and 1.0"],
    [bundle |-> "rubber", field |-> "effectiveness_threshold", value |-> 1001,
     reason |-> "effectiveness_threshold must be between 0.0 and 1.0"] >>

\* the sets of at most k faults, no two of them on the same field
RECURSIVE FaultSets(_)
FaultSets(k) ==
    IF k = 0 THEN {{}}
    ELSE LET smaller == FaultSets(k - 1)
             free(fs) == { j \in 1..Len(Faults) :
                             \A h \in fs : \/ Faults[h].field # Faults[j].field
                                           \/ Faults[h].bundle # Faults[j].bundle }
         IN  smaller \cup UNION { { fs \cup {i} : i \in free(fs) } : fs \in smaller }

\* cfg with the fields of the faults in fs overwritten
RECURSIVE InjectFaults(_, _, _)
InjectFaults(cfg, fs, i) ==
    IF i > Len(Faults) THEN cfg
    ELSE InjectFaults(
             IF i \in fs
             THEN [cfg EXCEPT ![Faults[i].bundle][Faults[i].field] = Faults[i].value]
             ELSE cfg,
             fs, i + 1)

Presets ==
    {FullPhysicsConfig_default, FullPhysicsConfig_competitive, FullPhysicsConfig_casual}

InitConfig ==
    /\ IdleRubber /\ IdleUsage /\ IdleCollision /\ IdleIntersect
    /\ IdleStep /\ IdleArena /\ IdleLate
    /\ injected \in FaultSets(MaxFaults)
    /\ \E preset \in Presets : full_config = InjectFaults(preset, injected, 1)
    /\ config_verdict = [fn |-> "none"]

\* one validate() call is made on full_config
ConfigFrame ==
    /\ config_verdict.fn = "none"
    /\ UNCHANGED <<full_config, injected, rubberVars, usageVars, collisionVars,
                   intersectVars, stepVars, arenaVars, lateVars>>

FullPhysicsConfigValidate ==
    /\ ConfigFrame
    /\ config_verdict' = [fn |-> "FullPhysicsConfig::validate",
                          result |-> FullPhysicsConfig_validate(full_config)]

PhysicsConfigValidate ==
    /\ ConfigFrame
    /\ config_verdict' = [fn |-> "PhysicsConfig::validate",
                          result |-> PhysicsConfig_validate(full_config.physics)]

CollisionConfigValidate ==
    /\ ConfigFrame
    /\ config_verdict' = [fn |-> "CollisionConfig::validate",
                          result |-> CollisionConfig_validate(full_config.collision)]

RubberConfigValidate ==
    /\ ConfigFrame
    /\ config_verdict' = [fn |-> "RubberConfig::validate",
                          result |-> RubberConfig_validate(full_config.rubber)]

NextConfig ==
    \/ FullPhysicsConfigValidate
    \/ PhysicsConfigValidate
    \/ CollisionConfigValidate
    \/ RubberConfigValidate

SpecConfig == InitConfig /\ [][NextConfig]_vars

\* the smallest member of a non-empty set of numbers
Least(S) == CHOOSE i \in S : \A j \in S : i <= j

\* the bundles in which a fault was injected
FaultyBundles == { Faults[i].bundle : i \in injected }

\* C19: FullPhysicsConfig::validate checks the PhysicsConfig fields in their
\* declared check order, then the CollisionConfig fields, then the
\* RubberConfig fields, and returns InvalidConfig for the first violated
\* check only; Ok is returned only when no check fails.
C19_FirstViolationReported ==
    config_verdict.fn = "FullPhysicsConfig::validate" =>
        /\ injected = {} => config_verdict.result = "Ok"
        /\ injected # {} => config_verdict.result = Faults[Least(injected)].reason

\* C19 witness: a configuration invalid in its collision bundle and in its
\* rubber bundle was reported for the collision field.
C19_Witness ==
    /\ config_verdict.fn = "FullPhysicsConfig::validate"
    /\ FaultyBundles = {"collision", "rubber"}
    /\ config_verdict.result # "Ok"
    /\ \E i \in injected :
           Faults[i].bundle = "collision" /\ config_verdict.result = Faults[i].reason

\* C20: the presets FullPhysicsConfig::competitive(), ::casual() and
\* ::default() all pass validate(), as does each of their three bundles
\* individually.
C20_PresetsValid ==
    (injected = {} /\ config_verdict.fn # "none") => config_verdict.result = "Ok"

\* C20 witness: the rubber bundle of the casual preset, whose max_rubber is
\* above RUBBER_CONFIG's, passed RubberConfig::validate.
C20_Witness ==
    /\ full_config = FullPhysicsConfig_casual
    /\ config_verdict.fn = "RubberConfig::validate"
    /\ config_verdict.result = "Ok"

----------------------------------------------------------------------------
(* distance_to_segment_squared called on its own                           *)

\* the trail segments, a short one that points of its line lie beyond, and
\* two long, slightly tilted ones, which the points of the x axis leave by
\* less than EPS
DistSegs ==
    TrailSegs \cup {Segment(1, 1, 2, 2), Segment(0, 0, GridFar, 1),
                    Segment(GridFar, 1, 0, 0)}
DistPoints == {0, 1, 2, GridFar} \X {0, 1, 2}

InitDistance ==
    /\ probe \in { [px |-> p[1], pz |-> p[2], segment |-> s] :
                     p \in DistPoints, s \in DistSegs }
    /\ measured = None
    /\ IdleRubber /\ IdleUsage /\ IdleCollision /\ IdleIntersect
    /\ IdleStep /\ IdleArena /\ IdleConfig
    /\ IdleSession /\ IdlePenalty /\ IdleBonus

\* let d = distance_to_segment_squared(px, pz, sx, sz, ex, ez)
DistanceToSegmentSquared ==
    /\ measured = None
    /\ measured' = Some(distance_to_segment_squared(probe.px, probe.pz,
                       probe.segment.start_x, probe.segment.start_z,
                       probe.segment.end_x, probe.segment.end_z))
    /\ UNCHANGED <<probe, rubberVars, usageVars, collisionVars, intersectVars,
                   stepVars, arenaVars, configVars, sessionVars, penalty, bonus>>

NextDistance == DistanceToSegmentSquared

SpecDistance == InitDistance /\ [][NextDistance]_vars

----------------------------------------------------------------------------
(* Claims about distance_to_segment_squared, under SpecDistance            *)

\* the probe against its segment: offset from start, segment vector, their
\* dot and cross products
ProbeW == <<probe.px - probe.segment.start_x, probe.pz - probe.segment.start_z>>
ProbeD == <<probe.segment.end_x - probe.segment.start_x,
            probe.segment.end_z - probe.segment.start_z>>
ProbeLenSq == ProbeD[1] * ProbeD[1] + ProbeD[2] * ProbeD[2]
ProbeDot == ProbeW[1] * ProbeD[1] + ProbeW[2] * ProbeD[2]
ProbeCross == ProbeW[1] * ProbeD[2] - ProbeW[2] * ProbeD[1]

\* a squared length q (whole grid units squared) is at most EPS^2
WithinEpsSq(q) == q * EPS_DEN * EPS_DEN <= EPS_NUM * EPS_NUM * GSCALE * GSCALE

\* the probe point lies within EPS of its segment, endpoints included
ProbeNear ==
    IF ProbeLenSq = 0 \/ ProbeDot <= 0
    THEN WithinEpsSq(ProbeW[1] * ProbeW[1] + ProbeW[2] * ProbeW[2])
    ELSE IF ProbeDot >= ProbeLenSq
    THEN WithinEpsSq((probe.px - probe.segment.end_x) * (probe.px - probe.segment.end_x)
                     + (probe.pz - probe.segment.end_z) * (probe.pz - probe.segment.end_z))
    ELSE \* cross^2 / len_sq <= EPS^2, and EPS is below one grid unit
         /\ ProbeCross * ProbeCross <= ProbeLenSq
         /\ ProbeCross * ProbeCross * EPS_DEN * EPS_DEN
                <= EPS_NUM * EPS_NUM * GSCALE * GSCALE * ProbeLenSq

\* the probe point lies on its segment, endpoints included
ProbeOnSegment ==
    IF ProbeLenSq = 0 THEN ProbeW = <<0, 0>>
    ELSE ProbeCross = 0 /\ 0 <= ProbeDot /\ ProbeDot <= ProbeLenSq

----------------------------------------------------------------------------
(* RubberConfig::calculate_position_bonus (config.rs).  A u32 does not fit *)
(* a 32-bit signed integer, so a value that may be as large as a u32 is    *)
(* held as two 16-bit limbs [hi, lo], worth hi * WORD + lo.  The bonus is  *)
(* such a number of thousandths, rounded down.                             *)

WORD == 65536
Wide(hi, lo) == [hi |-> hi, lo |-> lo]

\* a - b on u32 with wrap-around, for a, b below WORD: a - b + 2^32 if a < b
u32_wrapping_sub(a, b) ==
    IF a >= b THEN Wide(0, a - b) ELSE Wide(WORD - 1, WORD - (b - a))

\* w * k and w / k (rounded down) for a small k > 0; the high limb may grow
\* past WORD
WideMul(w, k) == Wide(w.hi * k + (w.lo * k) \div WORD, (w.lo * k) % WORD)
WideDiv(w, k) == Wide(w.hi \div k, ((w.hi % k) * WORD + w.lo) \div k)

\* the outcomes of cfg.calculate_position_bonus(position, total_players):
\* total_players - position is a u32 subtraction, which panics when built
\* with overflow checks and wraps around when built without
calculate_position_bonus(cfg, position, total_players) ==
    IF total_players = 0 \/ position = 0
    THEN { [returned |-> TRUE, value |-> Wide(0, 0)] }
    ELSE LET \* (total_players - position) as f32 / total_players as f32 * 0.1
             value == WideDiv(WideMul(u32_wrapping_sub(total_players, position),
                                      RSCALE \div 10), total_players)
         IN  IF position > total_players
             THEN { [returned |-> FALSE, panic |-> "attempt to subtract with overflow"],
                    [returned |-> TRUE, value |-> value] }
             ELSE { [returned |-> TRUE, value |-> value] }

\* positions and player counts up to MaxPosition
MaxPosition == 6

InitBonus ==
    /\ bonus = [fn |-> "none"]
    /\ IdleRubber /\ IdleUsage /\ IdleCollision /\ IdleIntersect
    /\ IdleStep /\ IdleArena /\ IdleConfig
    /\ IdleDist /\ IdleSession /\ IdlePenalty

\* cfg.calculate_position_bonus(position, total_players) on the rubber bundle
\* of a preset
CalculatePositionBonus ==
    \E preset \in Presets, position \in 0..MaxPosition, total_players \in 0..MaxPosition :
        \E outcome \in calculate_position_bonus(preset.rubber, position, total_players) :
            /\ bonus.fn = "none"
            /\ bonus' = [fn |-> "calculate_position_bonus", cfg |-> preset.rubber,
                         position |-> position, total_players |-> total_players,
                         outcome |-> outcome]
            /\ UNCHANGED <<rubberVars, usageVars, collisionVars, intersectVars,
                           stepVars, arenaVars, configVars, distVars, sessionVars,
                           penalty>>

NextBonus == CalculatePositionBonus

SpecBonus == InitBonus /\ [][NextBonus]_vars

----------------------------------------------------------------------------
(* Claims about calculate_position_bonus, under SpecBonus                  *)

\* C29: calculate_position_bonus(position, total_players) returns a bonus
\* within [0, 0.1] for every position >= 1 and total_players >= 1, position >
\* total_players included, and returns 0 when position = 0 or
\* total_players = 0.
C29_BonusWithinTenth ==
    bonus.fn = "calculate_position_bonus" =>
        /\ bonus.outcome.returned
        /\ bonus.outcome.value.hi = 0
        /\ bonus.outcome.value.lo <= RSCALE \div 10
        /\ (bonus.position = 0 \/ bonus.total_players = 0)
               => bonus.outcome.value = Wide(0, 0)

\* the bonus is within [0, 0.1] whenever position does not exceed total_players
C29_InRangeWithinTenth ==
    (bonus.fn = "calculate_position_bonus" /\ bonus.position <= bonus.total_players) =>
        /\ bonus.outcome.returned
        /\ bonus.outcome.value.hi = 0
        /\ bonus.outcome.value.lo <= RSCALE \div 10

----------------------------------------------------------------------------
(* The malus timer in f32.  The RubberState of penalty.st holds rubber and *)
(* malus in thousandths and malus_timer as an f32 (a number of 2^-30 s);   *)
(* durations and dt are decimal literals of whole hundredths of a second.  *)
(* penalty.T is the timer apply_malus set, penalty.full the malus it set,  *)
(* penalty.elapsed the exact sum of the dt of the update_rubber calls made *)
(* while the timer ran, and penalty.idle the number of calls made after.   *)

\* dt and duration arguments, in hundredths of a second
ExpiryDts == {2, 10, 30}
ExpiryDurations == {20, 60, 100}
ExpiryFactors == {HALF}

\* RUBBER_CONFIG.decay_rate.powf(dt), rounded down to a thousandth:
\* 0.95^0.02 = 0.99897, 0.95^0.1 = 0.99488, 0.95^0.3 = 0.98473
DecayFactor == [h \in ExpiryDts |-> CASE h = 2 -> 998 [] h = 10 -> 994 [] h = 30 -> 984]

\* a malus timer that expires without clearing the malus, in f32
update_malus32_keeps_malus(st, dt) ==
    IF st.malus_timer > 0
    THEN [st EXCEPT !.malus_timer = Max(F32Sub(st.malus_timer, dt), 0)]
    ELSE st

\* the malus timer of update_rubber, in f32
update_malus32(st, dt) ==
    IF st.malus_timer > 0
    THEN LET t == F32Sub(st.malus_timer, dt)
         IN  IF t <= 0 THEN [st EXCEPT !.malus_timer = 0, !.malus = 0]
             ELSE [st EXCEPT !.malus_timer = t]
    ELSE st

\* update_rubber(state, dt, None) for dt of h hundredths
update_rubber32(st, h) ==
    LET decay_factor == DecayFactor[h]
        decayed == Mul(st.rubber, decay_factor)
        clamped == Clamp(decayed, RUBBER_CONFIG.min_rubber, RUBBER_CONFIG.max_rubber)
    IN  update_malus32([st EXCEPT !.rubber = clamped], F32Lit(h))

\* apply_malus(state, duration, factor) for a duration of h hundredths
apply_malus32(st, h, factor) ==
    LET clamped_factor == Clamp(factor, 0, RSCALE)
    IN  [st EXCEPT
            !.malus = Mul(Mul(st.rubber, clamped_factor), RUBBER_CONFIG.malus_factor),
            !.malus_timer = Max(F32Lit(h), F32Lit(RUBBER_CONFIG.malus_duration \div 10))]

\* update_rubber calls made after the malus has expired
MaxIdle == 2

InitExpiry ==
    /\ \/ penalty = penalty_start(RubberState_new("p1"))
       \/ penalty = penalty_start(RubberState_with_rubber("p1", 2 * RSCALE))
    /\ IdleRubber /\ IdleUsage /\ IdleCollision /\ IdleIntersect
    /\ IdleStep /\ IdleArena /\ IdleConfig
    /\ IdleDist /\ IdleSession /\ IdleBonus

ExpiryFrame ==
    UNCHANGED <<rubberVars, usageVars, collisionVars, intersectVars,
                stepVars, arenaVars, configVars, distVars, sessionVars, bonus>>

\* apply_malus(&mut state, duration, factor), once
ExpiryApplyMalus ==
    \E h \in ExpiryDurations, factor \in ExpiryFactors :
        /\ ~penalty.applied
        /\ LET st == apply_malus32(penalty.st, h, factor)
           IN  penalty' = [penalty EXCEPT !.applied = TRUE, !.st = st,
                                          !.T = st.malus_timer, !.full = st.malus]
        /\ ExpiryFrame

\* update_rubber(&mut state, dt, None) with dt > 0
ExpiryUpdateRubber ==
    \E h \in ExpiryDts :
        /\ penalty.applied
        /\ penalty.idle < MaxIdle
        /\ penalty' =
             [penalty EXCEPT
                !.st = update_rubber32(penalty.st, h),
                !.elapsed = IF penalty.st.malus_timer > 0
                            THEN penalty.elapsed + F32Lit(h) ELSE penalty.elapsed,
                !.idle = IF penalty.st.malus_timer > 0
                         THEN penalty.idle ELSE penalty.idle + 1]
        /\ ExpiryFrame

NextExpiry ==
    \/ ExpiryApplyMalus
    \/ ExpiryUpdateRubber

SpecExpiry == InitExpiry /\ [][NextExpiry]_vars

----------------------------------------------------------------------------
(* Claims about the expiry of the malus, under SpecExpiry                  *)

\* the rounding of the timer's subtractions, 2^-18 s at most over a run
ExpirySlack == Pow2(12)

\* C28 as stated: after apply_malus sets the timer to T, with only
\* update_rubber (dt > 0) calls, the malus keeps its full value while the
\* accumulated dt is below T, and once the accumulated dt is at least T both
\* malus and malus_timer are 0 and remain 0.
C28_ExpiresAtAccumulatedT ==
    penalty.applied =>
        /\ penalty.elapsed < penalty.T => penalty.st.malus = penalty.full
        /\ penalty.elapsed >= penalty.T =>
               (penalty.st.malus = 0 /\ penalty.st.malus_timer = 0)

\* C28 amended: after apply_malus sets the timer to T, with only
\* update_rubber (dt > 0) calls, the malus keeps its full value while the
\* timer, from which each call subtracts its dt in f32, is above 0; the
\* first call that brings it to 0 or below sets both malus and malus_timer
\* to 0, and they remain 0.  That call is the one in which the accumulated
\* dt reaches T up to the rounding of the subtractions: it may come one call
\* before or after the accumulated dt reaches T exactly.
C28_ExpiresWithTimer ==
    penalty.applied =>
        /\ penalty.st.malus_timer >= 0
        /\ penalty.st.malus_timer > 0 =>
               /\ penalty.st.malus = penalty.full
               /\ penalty.idle = 0
               /\ penalty.elapsed < penalty.T + ExpirySlack
        /\ penalty.st.malus_timer = 0 =>
               /\ penalty.st.malus = 0
               /\ penalty.elapsed > penalty.T - ExpirySlack

\* C28 witness: a malus was cleared by the timer and update_rubber was called
\* again after that.
C28_Witness ==
    /\ penalty.applied /\ penalty.full > 0
    /\ penalty.st.malus = 0 /\ penalty.st.malus_timer = 0
    /\ penalty.idle >= 1

\* a malus still in force although the accumulated dt has reached T
C28_LateExpiry ==
    /\ penalty.applied /\ penalty.st.malus = penalty.full /\ penalty.full > 0
    /\ penalty.elapsed >= penalty.T

\* a malus cleared although the accumulated dt is still below T
C28_EarlyExpiry ==
    /\ penalty.applied /\ penalty.st.malus = 0 /\ penalty.full > 0
    /\ penalty.elapsed < penalty.T

----------------------------------------------------------------------------
(* The reducers of the session module (lib.rs).  A reducer is a function   *)
(* of the tables and its arguments; db is [player, game_state,             *)
(* global_config].  The order in which player().iter() yields rows is not  *)
(* fixed by the table, so the AI row join takes is any AI row.             *)

Db(tbl, gs, cfg) == [player |-> tbl, game_state |-> gs, global_config |-> cfg]

\* the rows a filter keeps
RowsWhere(tbl, Keep(_)) == { id \in DOMAIN tbl : Keep(tbl[id]) }

\* start_countdown(ctx)
start_countdown(db) ==
    [db EXCEPT
        !.game_state = [@ EXCEPT !.round_active = FALSE, !.countdown = 3,
                                 !.winner_id = ""],
        !.player = [id \in DOMAIN @ |->
                      LET i == KeyIndex(id)
                      IN  [@[id] EXCEPT !.x = Spawn[i].x, !.z = Spawn[i].z,
                                        !.dir_x = Spawn[i].dir_x,
                                        !.dir_z = Spawn[i].dir_z,
                                        !.speed = 0, !.turn_points_json = "[]",
                                        !.alive = TRUE]]]

\* check_round_start(ctx)
check_round_start(db) ==
    LET IsHuman(p) == ~p.is_ai
        human_count == Cardinality(RowsWhere(db.player, IsHuman))
    IN  IF human_count >= 1 THEN start_countdown(db) ELSE db

\* the AI rows, one of which join takes
ai_slots(db) == LET IsAi(p) == p.is_ai IN RowsWhere(db.player, IsAi)

\* the sender already owns a row
owns_row(db, sender) ==
    LET Owned(p) == p.owner_id = sender IN RowsWhere(db.player, Owned) # {}

\* a join that does not look for a row the sender already owns
join_again(db, sender, slot) ==
    IF slot \notin DOMAIN db.player \/ ~db.player[slot].is_ai THEN db
    ELSE LET IsHuman(p) == ~p.is_ai
             p == [db.player[slot] EXCEPT !.is_ai = FALSE, !.owner_id = sender,
                                          !.alive = TRUE, !.ready = TRUE, !.speed = 0,
                                          !.is_turning_left = FALSE,
                                          !.is_turning_right = FALSE]
             joined == [db EXCEPT !.player[slot] = p]
         IN  IF Cardinality(RowsWhere(joined.player, IsHuman)) >= 1
             THEN start_countdown(joined) ELSE joined

\* join(ctx), where slot is the row the filter on is_ai yields first
\* (any key when there is none)
join(db, sender, slot) ==
    IF owns_row(db, sender) THEN db
    ELSE IF slot \notin ai_slots(db) THEN db
    ELSE LET p == [db.player[slot] EXCEPT !.is_ai = FALSE, !.owner_id = sender,
                                          !.alive = TRUE, !.ready = TRUE, !.speed = 0,
                                          !.is_turning_left = FALSE,
                                          !.is_turning_right = FALSE]
         IN  check_round_start([db EXCEPT !.player[slot] = p])

\* on_disconnect(ctx), where found is the row find yields for the sender
on_disconnect(db, sender, found) ==
    IF found \notin DOMAIN db.player \/ db.player[found].owner_id # sender THEN db
    ELSE [db EXCEPT !.player[found] =
                        [@ EXCEPT !.is_ai = TRUE, !.owner_id = Identity_default,
                                  !.ready = FALSE]]

\* a check_winner that does not ask whether the round is active
check_winner_any_time(db) ==
    LET IsAlive(p) == p.alive
        IsReady(p) == p.ready
        alive_players == RowsWhere(db.player, IsAlive)
        total_players == Cardinality(RowsWhere(db.player, IsReady))
        gs == [db.game_state EXCEPT !.alive_count = Cardinality(alive_players),
                                    !.player_count = total_players]
    IN  IF Cardinality(alive_players) = 1 /\ total_players > 1
        THEN [db EXCEPT !.game_state =
                 [gs EXCEPT !.round_active = FALSE,
                            !.winner_id = CHOOSE id \in alive_players : TRUE]]
        ELSE IF alive_players = {} /\ gs.round_active
        THEN [db EXCEPT !.game_state = [gs EXCEPT !.round_active = FALSE]]
        ELSE [db EXCEPT !.game_state = gs]

\* check_winner(ctx)
check_winner(db) ==
    LET IsAlive(p) == p.alive
        IsReady(p) == p.ready
        alive_players == RowsWhere(db.player, IsAlive)
        total_players == Cardinality(RowsWhere(db.player, IsReady))
        gs == [db.game_state EXCEPT !.alive_count = Cardinality(alive_players),
                                    !.player_count = total_players]
    IN  IF Cardinality(alive_players) = 1 /\ total_players > 1 /\ gs.round_active
        THEN [db EXCEPT !.game_state =
                 [gs EXCEPT !.round_active = FALSE,
                            !.winner_id = CHOOSE id \in alive_players : TRUE]]
        ELSE IF alive_players = {} /\ gs.round_active
        THEN [db EXCEPT !.game_state = [gs EXCEPT !.round_active = FALSE]]
        ELSE [db EXCEPT !.game_state = gs]

\* the row sync_state writes: the arguments a over the row p
synced_row(p, a) ==
    [p EXCEPT !.x = a.x, !.z = a.z, !.dir_x = a.dir_x, !.dir_z = a.dir_z,
              !.speed = a.speed, !.is_braking = a.is_braking,
              !.is_turning_left = a.is_turning_left,
              !.is_turning_right = a.is_turning_right,
              !.alive = a.alive, !.turn_points_json = a.turn_points_json]

\* a sync_state that writes whoever the sender is
sync_state_unchecked(db, sender, a) ==
    IF a.id \notin DOMAIN db.player THEN db
    ELSE check_winner([db EXCEPT !.player[a.id] = synced_row(@, a)])

\* sync_state(ctx, id, x, z, dir_x, dir_z, speed, is_braking, alive,
\*            is_turning_left, is_turning_right, turn_points_json)
sync_state(db, sender, a) ==
    IF a.id \notin DOMAIN db.player THEN db
    ELSE LET p == db.player[a.id]
         IN  IF p.owner_id = sender \/ p.is_ai
             THEN check_winner([db EXCEPT !.player[a.id] = synced_row(p, a)])
             ELSE db

\* respawn(ctx, _player_id)
respawn(db, player_id) ==
    LET rows == [id \in DOMAIN db.player |->
                   LET i == KeyIndex(id)
                       p == db.player[id]
                   IN  [p EXCEPT !.x = Spawn[i].x, !.z = Spawn[i].z,
                                 !.dir_x = Spawn[i].dir_x, !.dir_z = Spawn[i].dir_z,
                                 !.alive = TRUE, !.speed = 0, !.is_braking = FALSE,
                                 !.is_turning_left = FALSE,
                                 !.is_turning_right = FALSE,
                                 !.ready = ~p.is_ai, !.turn_points_json = "[]"]]
        gs == [db.game_state EXCEPT !.round_active = FALSE, !.winner_id = "",
                                    !.countdown = 3]
    IN  start_countdown([db EXCEPT !.player = rows, !.game_state = gs])

\* update_config(ctx, boost_speed, slipstream_mode)
update_config(db, sender, boost_speed, slipstream_mode) ==
    IF sender = db.global_config.admin_id
    THEN [db EXCEPT !.global_config =
             [@ EXCEPT !.boost_speed = boost_speed,
                       !.slipstream_mode = slipstream_mode]]
    ELSE db

\* a tick_countdown that starts the round one tick early
tick_countdown_starts_at_one(db) ==
    LET gs == db.game_state
    IN  IF ~gs.round_active /\ gs.countdown > 0
        THEN LET countdown == gs.countdown - 1
             IN  IF countdown <= 1
                 THEN [db EXCEPT
                         !.game_state = [gs EXCEPT !.countdown = countdown,
                                                   !.round_active = TRUE],
                         !.player = [id \in DOMAIN @ |->
                                       [@[id] EXCEPT !.speed = 40 * RSCALE,
                                                     !.ready = TRUE]]]
                 ELSE [db EXCEPT !.game_state = [gs EXCEPT !.countdown = countdown]]
        ELSE db

\* tick_countdown(ctx)
tick_countdown(db) ==
    LET gs == db.game_state
    IN  IF ~gs.round_active /\ gs.countdown > 0
        THEN LET countdown == gs.countdown - 1
             IN  IF countdown = 0
                 THEN [db EXCEPT
                         !.game_state = [gs EXCEPT !.countdown = countdown,
                                                   !.round_active = TRUE],
                         !.player = [id \in DOMAIN @ |->
                                       [@[id] EXCEPT !.speed = 40 * RSCALE,
                                                     !.ready = TRUE]]]
                 ELSE [db EXCEPT !.game_state = [gs EXCEPT !.countdown = countdown]]
        ELSE db

----------------------------------------------------------------------------
(* The session as a state machine: one action per reducer call, from the   *)
(* tables init leaves                                                      *)

\* the clients: the admin and one other identity, the one that joins
SessionIdentities == {"alice", ADMIN}
JoinSenders == {"alice"}

\* the ids sync_state and respawn are called with: the six rows and one id
\* that no row has
CalledIds == PlayerKeys \cup {"p7"}

\* what a client reports of a cycle: it has crashed at the centre
SyncReport(alive) ==
    [x |-> 0, z |-> 0, dir_x |-> RSCALE, dir_z |-> 0, speed |-> 40 * RSCALE,
     is_braking |-> FALSE, alive |-> alive, is_turning_left |-> FALSE,
     is_turning_right |-> FALSE, turn_points_json |-> "[[0,0]]"]
SyncArgs == { [id |-> id] @@ SyncReport(FALSE) : id \in CalledIds }

\* the arguments of update_config
ConfigArgs == { [boost_speed |-> 80 * RSCALE, slipstream_mode |-> "standard"] }

\* clients that leave their row in one session
MaxDisconnects == 1

CurrentDb == Db(player_table, game_state, global_config)

\* the tables become those of db
Commit(db) ==
    /\ player_table' = db.player
    /\ game_state' = db.game_state
    /\ global_config' = db.global_config
    /\ UNCHANGED <<rubberVars, usageVars, collisionVars, intersectVars,
                   stepVars, arenaVars, configVars, distVars, penalty, bonus>>

\* the rows the sender owns
OwnedBy(sender) ==
    LET Owned(p) == p.owner_id = sender IN RowsWhere(player_table, Owned)

InitSession ==
    /\ IdleSession
    /\ IdleRubber /\ IdleUsage /\ IdleCollision /\ IdleIntersect
    /\ IdleStep /\ IdleArena /\ IdleConfig
    /\ IdleDist /\ IdlePenalty /\ IdleBonus

Join ==
    \E sender \in JoinSenders :
        \E slot \in IF ai_slots(CurrentDb) = {} THEN {"none"} ELSE ai_slots(CurrentDb) :
            /\ Commit(join(CurrentDb, sender, slot))
            /\ UNCHANGED disconnects

OnDisconnect ==
    \E sender \in SessionIdentities :
        \E found \in IF OwnedBy(sender) = {} THEN {"none"} ELSE OwnedBy(sender) :
            /\ found # "none" => disconnects < MaxDisconnects
            /\ Commit(on_disconnect(CurrentDb, sender, found))
            /\ disconnects' = IF found = "none" THEN disconnects ELSE disconnects + 1

SyncState ==
    \E sender \in SessionIdentities, a \in SyncArgs :
        /\ Commit(sync_state(CurrentDb, sender, a))
        /\ UNCHANGED disconnects

Respawn ==
    \E player_id \in {PlayerKey[1], "p7"} :
        /\ Commit(respawn(CurrentDb, player_id))
        /\ UNCHANGED disconnects

UpdateConfig ==
    \E sender \in SessionIdentities, a \in ConfigArgs :
        /\ Commit(update_config(CurrentDb, sender, a.boost_speed, a.slipstream_mode))
        /\ UNCHANGED disconnects

TickCountdown ==
    /\ Commit(tick_countdown(CurrentDb))
    /\ UNCHANGED disconnects

NextSession ==
    \/ Join
    \/ OnDisconnect
    \/ SyncState
    \/ Respawn
    \/ UpdateConfig
    \/ TickCountdown

SpecSession == InitSession /\ [][NextSession]_vars

----------------------------------------------------------------------------
(* Claims about the session, under SpecSession                             *)

AliveRows(tbl) == LET IsAlive(p) == p.alive IN RowsWhere(tbl, IsAlive)
ReadyRows(tbl) == LET IsReady(p) == p.ready IN RowsWhere(tbl, IsReady)
HumanRows(tbl) == LET IsHuman(p) == ~p.is_ai IN RowsWhere(tbl, IsHuman)

\* C23: round_active is never set to true while no player row has
\* is_ai = false, whatever the interleaving of join, on_disconnect,
\* sync_state, respawn, update_config and tick_countdown.
C23_RoundNeedsHuman ==
    [][ (~game_state.round_active /\ game_state'.round_active)
        => HumanRows(player_table') # {} ]_vars

\* C24: a non-empty winner_id is set only in a step that begins with
\* round_active true and in which check_winner finds exactly one alive
\* player and more than one ready player; that step sets round_active to
\* false and names the alive player; and in no reachable state is
\* round_active true while winner_id is non-empty.
C24_WinnerOnlyInActiveRound ==
    [][ /\ (game_state'.winner_id # "" /\ game_state'.winner_id # game_state.winner_id)
           => /\ game_state.round_active
              /\ AliveRows(player_table') = {game_state'.winner_id}
              /\ Cardinality(ReadyRows(player_table')) > 1
              /\ Cardinality(ReadyRows(player_table)) > 1
              /\ ~game_state'.round_active
        /\ ~(game_state.round_active /\ game_state.winner_id # "")
        /\ ~(game_state'.round_active /\ game_state'.winner_id # "") ]_vars

\* C24 witness: a round has ended with a winner, the only player alive.
C24_Witness ==
    /\ game_state.winner_id # ""
    /\ ~game_state.round_active
    /\ AliveRows(player_table) = {game_state.winner_id}
    /\ game_state.alive_count = 1

\* C25: sync_state modifies a player row only when the caller is the row's
\* owner_id or the row is an AI row, and then no other row; a call by
\* anyone else, or with an id that no row has, leaves player, game_state
\* and global_config unchanged.
C25_SyncAuthorisedPerRow ==
    \A sender \in SessionIdentities, a \in SyncArgs :
        LET db == sync_state(CurrentDb, sender, a)
            authorised ==
                /\ a.id \in PlayerKeys
                /\ (player_table[a.id].owner_id = sender \/ player_table[a.id].is_ai)
        IN  /\ ~authorised => db = CurrentDb
            /\ \A id \in PlayerKeys :
                   db.player[id] # player_table[id] => (id = a.id /\ authorised)
            /\ db.global_config = global_config

\* C25 witness: the row a client owns carries the crash that client reported,
\* and the same report by the other client is refused.
C25_Witness ==
    \E id \in PlayerKeys :
        /\ player_table[id].owner_id = "alice"
        /\ ~player_table[id].alive
        /\ player_table[id].turn_points_json = "[[0,0]]"
        /\ game_state.round_active
        /\ sync_state(CurrentDb, ADMIN, [id |-> id] @@ SyncReport(FALSE)) = CurrentDb
        /\ sync_state(CurrentDb, "alice", [id |-> id] @@ SyncReport(FALSE)) # CurrentDb

\* what tick_countdown does in the current state
TickOutcome ==
    LET db == tick_countdown(CurrentDb)
    IN  IF game_state.round_active \/ game_state.countdown = 0
        THEN db = CurrentDb
        ELSE /\ db.game_state.countdown = game_state.countdown - 1
             /\ db.game_state.round_active = (db.game_state.countdown = 0)
             /\ db.game_state.round_active =>
                    \A id \in PlayerKeys :
                        db.player[id].speed = 40 * RSCALE /\ db.player[id].ready
             /\ ~db.game_state.round_active => db.player = player_table
             /\ db.global_config = global_config

\* C27: tick_countdown changes nothing while round_active is true or
\* countdown is 0; otherwise it decrements countdown by 1, and round_active
\* becomes true exactly in the tick that brings countdown to 0, which also
\* sets every player's speed to 40 and ready to true.  countdown is always
\* in 0..3, and round_active implies countdown = 0.
C27_TickCountdown ==
    /\ TickOutcome
    /\ game_state.countdown \in 0..3
    /\ game_state.round_active => game_state.countdown = 0

\* C27 witness: the third tick has just started a round.
C27_Witness ==
    /\ game_state.round_active /\ game_state.countdown = 0
    /\ \A id \in PlayerKeys :
           /\ player_table[id].speed = 40 * RSCALE
           /\ player_table[id].ready /\ player_table[id].alive
    /\ HumanRows(player_table) # {}

----------------------------------------------------------------------------
(* The lobby: clients joining and leaving, and nothing else.  There is one *)
(* client more than there are rows, and Identity::default() calls too.     *)

LobbyClients == {"c1", "c2", "c3", "c4", "c5", "c6", "c7"}
LobbyIdentities == LobbyClients \cup {Identity_default}

\* the rows join may be handed by the filter on is_ai
JoinSlots == IF ai_slots(CurrentDb) = {} THEN {"none"} ELSE ai_slots(CurrentDb)

LobbyJoin ==
    \E sender \in LobbyIdentities, slot \in JoinSlots :
        /\ Commit(join(CurrentDb, sender, slot))
        /\ UNCHANGED disconnects

LobbyOnDisconnect ==
    \E sender \in LobbyIdentities :
        \E found \in IF OwnedBy(sender) = {} THEN {"none"} ELSE OwnedBy(sender) :
            /\ Commit(on_disconnect(CurrentDb, sender, found))
            /\ UNCHANGED disconnects

NextLobby ==
    \/ LobbyJoin
    \/ LobbyOnDisconnect

SpecLobby == InitSession /\ [][NextLobby]_vars

----------------------------------------------------------------------------
(* Claims about the lobby, under SpecLobby                                 *)

\* C26: whatever the interleaving of join and on_disconnect calls, a join
\* by an identity that already owns a row changes nothing, no two rows have
\* the same non-default owner_id, the table keeps exactly the six rows p1 to
\* p6, and a join when no AI row is left changes nothing.
C26_JoinIdempotent ==
    /\ DOMAIN player_table = PlayerKeys
    /\ \A id \in PlayerKeys : player_table[id].id = id
    /\ \A id1 \in PlayerKeys, id2 \in PlayerKeys :
           (id1 # id2 /\ player_table[id1].owner_id # Identity_default)
           => player_table[id1].owner_id # player_table[id2].owner_id
    /\ \A sender \in LobbyIdentities, slot \in JoinSlots :
           (OwnedBy(sender) # {} \/ ai_slots(CurrentDb) = {})
           => join(CurrentDb, sender, slot) = CurrentDb

\* C26 witness: six clients own the six rows, and the join of the seventh
\* changes nothing.
C26_Witness ==
    /\ ai_slots(CurrentDb) = {}
    /\ \E sender \in LobbyClients :
           /\ OwnedBy(sender) = {}
           /\ join(CurrentDb, sender, "none") = CurrentDb

====
